---- MODULE Spec2Model ----
(***************************************************************************)
(* AetherGL: the lighting state (LightingConfig), its time-of-day          *)
(* integrator and presets, and the post-processing compositor              *)
(* (PostProcessor) as driven by TerrainRenderer::render.                    *)
(*                                                                          *)
(* Fixed-point conventions for the floats of the source:                    *)
(*   time of day      thousandths          (0.3f    -> 300)                 *)
(*   daySpeed         hundredths           (0.1f    -> 10)                  *)
(*   deltaTime        tenths of a second   (1.0f    -> 10)                  *)
(*     so deltaTime * daySpeed is in thousandths, exactly                   *)
(*   intensity, range, position, heights    thousandths                     *)
(*   colour components                      millionths (0.4f -> 400000)     *)
(*     so nightFog + mixFactor * (sunsetFog - nightFog) is exact            *)
(* A glm::vec3 is a tuple <<x, y, z>>.                                      *)
(***************************************************************************)
EXTENDS Integers, Sequences, FiniteSets, TLC

VARIABLES
    lighting,       \* the LightingConfig instance (m_lighting)
    console,        \* what the last operation wrote to std::cout / std::cerr
    last,           \* the last operation called and its argument
    pp,             \* the PostProcessor instance (m_postProcessor)
    renderer,       \* the orchestrator, TerrainRenderer (GLFW) or TerrainViewer (Qt):
                    \* viewport size, whether m_postProcessor is set, and whether
                    \* frames go through it
    gl,             \* the OpenGL context: bindings, capabilities, live objects
    blackTexture,   \* the function-static GLuint blackTexture of endFrame
    frame,          \* the passes of the frame the last step rendered, if it did
    session,        \* what has gone wrong since the program started
    mesh,           \* what the last generateTerrainMesh call returned
    noise           \* the NoiseGenerator objects and the value last returned

vars == <<lighting, console, last, pp, renderer, gl, blackTexture, frame, session, mesh, noise>>
lightingVars == <<lighting>>
postVars == <<pp, renderer, gl, blackTexture, frame, session, mesh, noise>>

(***************************************************************************)
(* Bounds of the model                                                     *)
(***************************************************************************)
\* largest value of timeOfDay + deltaTime*daySpeed (thousandths) explored
MaxTimeSum == 2000
\* largest bloomBlurPasses explored (the UI slider goes to 10)
MaxBlurPasses == 6
\* reallocating resizes on a driver that hands out new names each time
MaxReallocations == 3
\* segments a side of the grids generated in full
MaxGridSegments == 6
\* lines of a settings.txt
MaxLines == 3

(***************************************************************************)
(* Program constants                                                       *)
(***************************************************************************)
MaxPointLights == 8
TimeUnit == 1000

Abs(x) == IF x < 0 THEN -x ELSE x
Clamp(x, lo, hi) == IF x < lo THEN lo ELSE IF hi < x THEN hi ELSE x

(***************************************************************************)
(* LightingConfig.h : the structs and their default member initialisers    *)
(***************************************************************************)
DirectionalLight(dir, col, intens) ==
    [direction |-> dir, color |-> col, intensity |-> intens, enabled |-> TRUE]

DefaultDirectionalLight ==
    DirectionalLight(<<"vec", 300, -700, -200>>, <<1000000, 950000, 800000>>, 3000)

PointLight(pos, col, intens, r) ==
    [position |-> pos, color |-> col, intensity |-> intens, range |-> r]

DefaultPointLight ==
    PointLight(<<0, 0, 0>>, <<1000000, 1000000, 1000000>>, 10000, 20000)

TerrainMaterialConfig == [grassHeight |-> 2000, rockHeight |-> 8000, snowHeight |-> 12000]

POMConfig ==
    [enabled |-> TRUE, scale |-> 80, minSamples |-> 16, maxSamples |-> 64, sharpen |-> 1000]

IBLConfig == [enabled |-> FALSE, intensity |-> 300]

AtmosphericConfig ==
    [enableAtmosphericFog |-> TRUE, fogDensity |-> 20, fogHeightFalloff |-> 100,
     fogColor |-> <<700000, 800000, 900000>>, atmosphericPerspective |-> 500,
     atmosphereRadius |-> 1000000, planetRadius |-> 900000, rayleighCoeff |-> 1000,
     mieCoeff |-> 1000, mieG |-> 800, sunDiskSize |-> 10, exposure |-> 1000]

TimeOfDayConfig == [timeOfDay |-> 300, animateTimeOfDay |-> FALSE, daySpeed |-> 10]

(***************************************************************************)
(* TimeOfDayConfig::getSunDirection / getSunColor / getSunIntensity        *)
(***************************************************************************)
\* angle = (timeOfDay - 0.5) * 2 PI, kept in units of PI/1000; the vector
\* normalize(sin(angle)*0.3, -cos(angle), -0.2) is kept symbolic in its angle,
\* which sin and cos take modulo 2 PI.
getSunDirection(t) == <<"sun", ((t - 500) * 2) % 2000>>

NightSunColor == <<100000, 100000, 300000>>
DawnDuskSunColor == <<1000000, 600000, 300000>>
DaySunColor == <<1000000, 950000, 800000>>

\* variant: the night edge taken inclusively
getSunColor_InclusiveEdge(t) ==
    IF t <= 200 \/ t >= 800 THEN NightSunColor
    ELSE IF t < 300 \/ t > 700 THEN DawnDuskSunColor
    ELSE DaySunColor

getSunColor(t) ==
    IF t < 200 \/ t > 800 THEN NightSunColor
    ELSE IF t < 300 \/ t > 700 THEN DawnDuskSunColor
    ELSE DaySunColor

NightSunIntensity == 100
DawnDuskSunIntensity == 2000
DaySunIntensity == 4000

getSunIntensity(t) ==
    IF t < 200 \/ t > 800 THEN NightSunIntensity
    ELSE IF t < 300 \/ t > 700 THEN DawnDuskSunIntensity
    ELSE DaySunIntensity

(***************************************************************************)
(* LightingConfig.cpp : the methods, as functions of the pair              *)
(*   S = [cfg |-> the LightingConfig, out |-> what was printed]            *)
(***************************************************************************)
WarnMaxLights == "Warning: Maximum number of point lights (8) reached"
MsgDefault == "Lighting Config: Default daytime lighting setup"
MsgSunset == "Lighting Config: Dramatic sunset lighting setup"
MsgNight == "Lighting Config: Atmospheric night scene with multiple lights"
NoOutput == ""

\* variants: the capacity test off by one; the rejection without its warning
addPointLight_OffByOne(S, light) ==
    IF Len(S.cfg.pointLights) <= MaxPointLights
    THEN [S EXCEPT !.cfg.pointLights = Append(@, light)]
    ELSE [S EXCEPT !.out = WarnMaxLights]

addPointLight_Silent(S, light) ==
    IF Len(S.cfg.pointLights) < MaxPointLights
    THEN [S EXCEPT !.cfg.pointLights = Append(@, light)]
    ELSE S

addPointLight(S, light) ==
    IF Len(S.cfg.pointLights) < MaxPointLights
    THEN [S EXCEPT !.cfg.pointLights = Append(@, light)]
    ELSE [S EXCEPT !.out = WarnMaxLights]

clearPointLights(S) == [S EXCEPT !.cfg.pointLights = <<>>]

DefaultLights ==
    << PointLight(<<10000, 3000, 10000>>, <<1000000, 600000, 200000>>, 8000, 25000),
       PointLight(<<-15000, 5000, -10000>>, <<200000, 400000, 1000000>>, 6000, 20000) >>

SunsetLights ==
    << PointLight(<<20000, 2000, 15000>>, <<1000000, 300000, 0>>, 25000, 30000),
       PointLight(<<-10000, 1000, -5000>>, <<400000, 200000, 600000>>, 12000, 20000) >>

NightLights ==
    << PointLight(<<8000, 4000, 8000>>, <<1000000, 700000, 300000>>, 30000, 15000),
       PointLight(<<-12000, 3000, 5000>>, <<1000000, 800000, 400000>>, 25000, 18000),
       PointLight(<<0, 8000, -15000>>, <<300000, 800000, 1000000>>, 20000, 25000),
       PointLight(<<15000, 2000, -8000>>, <<200000, 1000000, 300000>>, 18000, 20000),
       PointLight(<<-5000, 6000, 12000>>, <<800000, 200000, 1000000>>, 22000, 16000) >>

\* the consecutive addPointLight calls of a preset
RECURSIVE addPointLights(_, _)
addPointLights(S, lights) ==
    IF lights = <<>> THEN S
    ELSE addPointLights(addPointLight(S, Head(lights)), Tail(lights))

DefaultSun ==
    DirectionalLight(<<"vec", 300, -700, -200>>, <<1000000, 950000, 800000>>, 1200)

SunsetSun ==
    DirectionalLight(<<"vec", 800, -300, 200>>, <<1000000, 400000, 100000>>, 2500)

setupDefaultLights(S) ==
    LET s1 == [S EXCEPT !.cfg.pointLights = <<>>, !.cfg.directionalLight = DefaultSun]
        s2 == addPointLights(s1, DefaultLights)
    IN  [s2 EXCEPT !.cfg.terrain = [grassHeight |-> 2000, rockHeight |-> 8000,
                                    snowHeight |-> 12000],
                   !.cfg.pom.enabled = TRUE,
                   !.cfg.pom.scale = 80,
                   !.cfg.pom.minSamples = 64,
                   !.cfg.pom.maxSamples = 128,
                   !.cfg.ibl = [enabled |-> FALSE, intensity |-> 300],
                   !.out = MsgDefault]

\* variant: the sun's fields assigned one by one, leaving `enabled' as it was
setupSunsetLighting_KeepEnabled(S) ==
    LET s1 == [S EXCEPT !.cfg.pointLights = <<>>,
                        !.cfg.directionalLight.direction = SunsetSun.direction,
                        !.cfg.directionalLight.color = SunsetSun.color,
                        !.cfg.directionalLight.intensity = SunsetSun.intensity]
        s2 == addPointLights(s1, SunsetLights)
    IN  [s2 EXCEPT !.out = MsgSunset]

setupSunsetLighting(S) ==
    LET s1 == [S EXCEPT !.cfg.pointLights = <<>>, !.cfg.directionalLight = SunsetSun]
        s2 == addPointLights(s1, SunsetLights)
    IN  [s2 EXCEPT !.out = MsgSunset]

setupNightLighting(S) ==
    LET s1 == [S EXCEPT !.cfg.directionalLight.enabled = FALSE, !.cfg.pointLights = <<>>]
        s2 == addPointLights(s1, NightLights)
    IN  [s2 EXCEPT !.out = MsgNight]

NightFog == <<400000, 400000, 600000>>
SunsetFog == <<800000, 600000, 400000>>
DayFog == <<700000, 800000, 900000>>

\* nightFog + mixFactor * (sunsetFog - nightFog), mixFactor in thousandths
fogMix(mixFactor) ==
    [i \in 1..3 |-> NightFog[i] + (mixFactor * (SunsetFog[i] - NightFog[i])) \div 1000]

fogColorAt(t) ==
    IF t < 300 \/ t > 700
    THEN fogMix(Clamp(Abs(t - 500) * 4 - 1000, 0, 1000))
    ELSE DayFog

\* timeOfDay += deltaTime * daySpeed; if (timeOfDay >= 1.0f) timeOfDay -= 1.0f;
advanceTime(t, deltaTime, daySpeed) ==
    LET sum == t + deltaTime * daySpeed
    IN  IF sum >= TimeUnit THEN sum - TimeUnit ELSE sum

\* variant: the fog colour left alone by the update
updateTimeOfDay_NoFog(S, deltaTime) ==
    IF S.cfg.timeOfDay.animateTimeOfDay
    THEN LET t == advanceTime(S.cfg.timeOfDay.timeOfDay, deltaTime,
                              S.cfg.timeOfDay.daySpeed)
         IN  [S EXCEPT !.cfg.timeOfDay.timeOfDay = t,
                       !.cfg.directionalLight.direction = getSunDirection(t),
                       !.cfg.directionalLight.color = getSunColor(t),
                       !.cfg.directionalLight.intensity = getSunIntensity(t)]
    ELSE S

updateTimeOfDay(S, deltaTime) ==
    IF S.cfg.timeOfDay.animateTimeOfDay
    THEN LET t == advanceTime(S.cfg.timeOfDay.timeOfDay, deltaTime,
                              S.cfg.timeOfDay.daySpeed)
         IN  [S EXCEPT !.cfg.timeOfDay.timeOfDay = t,
                       !.cfg.directionalLight.direction = getSunDirection(t),
                       !.cfg.directionalLight.color = getSunColor(t),
                       !.cfg.directionalLight.intensity = getSunIntensity(t),
                       !.cfg.atmosphere.fogColor = fogColorAt(t)]
    ELSE S

\* LightingConfig() : member defaults, then setupDefaultLights()
NewLightingConfig ==
    setupDefaultLights(
        [cfg |-> [directionalLight |-> DefaultDirectionalLight,
                  pointLights |-> <<>>,
                  terrain |-> TerrainMaterialConfig,
                  pom |-> POMConfig,
                  ibl |-> IBLConfig,
                  atmosphere |-> AtmosphericConfig,
                  timeOfDay |-> TimeOfDayConfig],
         out |-> NoOutput])

(***************************************************************************)
(* Inputs of the external collaborators (UI sliders, frame clock)          *)
(***************************************************************************)
UserLight == PointLight(<<1000, 2000, 3000>>, <<500000, 500000, 500000>>, 5000, 10000)
UserLights == {UserLight}
GuiNumLights == {0, 1, 8}
\* "Time of Day" slider, 0.0 .. 1.0: the band edges and their neighbours
SliderTimes == {0, 199, 200, 299, 300, 500, 700, 701, 800, 801, 980, 1000}
\* "Animation Speed" slider, 0.0 .. 0.2
DaySpeeds == {10, 20}
\* frame times: 0 s, 1 s, 10 s (a stalled frame)
DeltaTimes == {0, 10, 100}
UserSunDirection == <<"vec", -500, -500, 0>>
UserSunColor == <<250000, 250000, 250000>>
UserSunIntensities == {7500}
UserFogColor == <<123000, 456000, 789000>>

(***************************************************************************)
(* TerrainGenerator.cpp.  A std::vector is modelled by its size.  Sizes     *)
(* and unsigned ints are pairs [hi, lo] standing for hi * Limb + lo: an    *)
(* unsigned int has hi < Limb, a size_t is not reduced.                    *)
(***************************************************************************)
Limb == 65536

\* x + n for a natural n
plus(x, n) == [hi |-> x.hi + (x.lo + n) \div Limb, lo |-> (x.lo + n) % Limb]

\* a * b for naturals up to Limb + 1
times(a, b) ==
    LET p == a * (b \div 256)
    IN  plus([hi |-> p \div 256, lo |-> (p % 256) * 256], a * (b % 256))

\* x * k for a small natural k
scaled(x, k) == [hi |-> x.hi * k + (x.lo * k) \div Limb, lo |-> (x.lo * k) % Limb]

\* the value as an unsigned int
wrap(x) == [x EXCEPT !.hi = @ % Limb]

Zero == [hi |-> 0, lo |-> 0]

MsgInvalidSegments == "TerrainGenerator: Invalid segment count. Must be at least 1."
MsgInvalidDimensions ==
    "TerrainGenerator: Invalid dimensions. Width and depth must be positive."
MsgVertexMismatch == "TerrainGenerator: Vertex count mismatch."
MsgIndexMismatch == "TerrainGenerator: Index count mismatch."
MsgMeshFailed == "Failed to generate displaced terrain mesh"
MsgGenerating == "Generating terrain with totalVertices vertices..."

\* the grid of generateDisplacedPlaneMesh once its parameters are accepted:
\* the two loops push (depthSegments + 1) * (widthSegments + 1) vertices and
\* 6 indices for each of depthSegments * widthSegments cells
buildPlane(widthSegments, depthSegments) ==
    LET vertexCountX == widthSegments + 1
        vertexCountZ == depthSegments + 1
        totalVertices == wrap(times(vertexCountX, vertexCountZ))
        totalTriangles == wrap(scaled(wrap(times(widthSegments, depthSegments)), 2))
        totalIndices == wrap(scaled(totalTriangles, 3))
        vertices == times(vertexCountZ, vertexCountX)
        indices == scaled(times(depthSegments, widthSegments), 6)
    IN  IF vertices # totalVertices
        THEN [ok |-> FALSE, vertices |-> vertices, indices |-> indices,
              out |-> <<MsgGenerating, MsgVertexMismatch>>]
        ELSE IF indices # totalIndices
        THEN [ok |-> FALSE, vertices |-> vertices, indices |-> indices,
              out |-> <<MsgGenerating, MsgIndexMismatch>>]
        ELSE [ok |-> TRUE, vertices |-> vertices, indices |-> indices,
              out |-> <<MsgGenerating>>]

\* variant: no parameter validation
generateDisplacedPlaneMesh_Unchecked(width, depth, widthSegments, depthSegments) ==
    buildPlane(widthSegments, depthSegments)

\* width and depth in thousandths
generateDisplacedPlaneMesh(width, depth, widthSegments, depthSegments) ==
    IF widthSegments < 1 \/ depthSegments < 1
    THEN [ok |-> FALSE, vertices |-> Zero, indices |-> Zero, out |-> <<MsgInvalidSegments>>]
    ELSE IF width <= 0 \/ depth <= 0
    THEN [ok |-> FALSE, vertices |-> Zero, indices |-> Zero, out |-> <<MsgInvalidDimensions>>]
    ELSE buildPlane(widthSegments, depthSegments)

\* the returned shared_ptr<Mesh>: valid is whether it is non-null, vertices
\* and indices the sizes of the two vectors when the function returns
generateTerrainMesh(width, depth, widthSegments, depthSegments) ==
    LET g == generateDisplacedPlaneMesh(width, depth, widthSegments, depthSegments)
    IN  IF ~g.ok
        THEN [valid |-> FALSE, vertices |-> g.vertices, indices |-> g.indices,
              out |-> Append(g.out, MsgMeshFailed)]
        ELSE [valid |-> TRUE, vertices |-> g.vertices, indices |-> g.indices,
              out |-> g.out]

\* an unsigned int or size of a small grid as a number
asNumber(u) == u.hi * Limb + u.lo

\* variant: the row stride is the number of cells of a row
quadIndices_CellStride(vertexCountX, x, z) ==
    LET topLeft == wrap(plus(times(z, vertexCountX - 1), x))
        topRight == wrap(plus(topLeft, 1))
        bottomLeft == wrap(plus(times(z + 1, vertexCountX - 1), x))
        bottomRight == wrap(plus(bottomLeft, 1))
    IN  <<topLeft, bottomLeft, topRight, topRight, bottomLeft, bottomRight>>

\* the body of the index loops: the six push_back of one quad, in unsigned int
quadIndices(vertexCountX, x, z) ==
    LET topLeft == wrap(plus(times(z, vertexCountX), x))
        topRight == wrap(plus(topLeft, 1))
        bottomLeft == wrap(plus(times(z + 1, vertexCountX), x))
        bottomRight == wrap(plus(bottomLeft, 1))
    IN  <<topLeft, bottomLeft, topRight, topRight, bottomLeft, bottomRight>>

\* variant: the outer loop stops one row early
indexLoops_RowShort(widthSegments, depthSegments) ==
    [k \in 1..(6 * widthSegments * (depthSegments - 1)) |->
        quadIndices(widthSegments + 1, ((k - 1) \div 6) % widthSegments,
                    ((k - 1) \div 6) \div widthSegments)[((k - 1) % 6) + 1]]

\* the index vector after the two loops, z outside and x inside: the quad of
\* cell (x, z) is pushed as number z * widthSegments + x
indexLoops(widthSegments, depthSegments) ==
    [k \in 1..(6 * widthSegments * depthSegments) |->
        quadIndices(widthSegments + 1, ((k - 1) \div 6) % widthSegments,
                    ((k - 1) \div 6) \div widthSegments)[((k - 1) % 6) + 1]]

\* calculateSmoothNormals on the vertices of a grid: the vertices that get
\* the fallback normal.  A triangle with an index out of range is skipped;
\* every other adds its face normal to its three vertices.  The face normal
\* of a grid triangle has the y component stepX * stepZ > 0, so the sum at a
\* vertex is of length zero only when no triangle added to it.
calculateSmoothNormals(vertexCount, indices) ==
    LET triangles == {t \in 0..((Len(indices) \div 3) - 1) :
                         \A j \in 1..3 : asNumber(indices[3 * t + j]) < vertexCount}
    IN  {v \in 0..(vertexCount - 1) :
            ~\E t \in triangles, j \in 1..3 : asNumber(indices[3 * t + j]) = v}

\* generateTerrainMesh on a grid small enough to hold in full: the vectors
\* handed to make_shared<Mesh>, and the vertices that got the fallback normal
generateGrid(width, depth, widthSegments, depthSegments) ==
    LET g == generateTerrainMesh(width, depth, widthSegments, depthSegments)
        indices == indexLoops(widthSegments, depthSegments)
    IN  [valid |-> g.valid, vertices |-> g.vertices, indices |-> g.indices, out |-> g.out,
         indexBuffer |-> indices,
         fallbacks |-> calculateSmoothNormals(asNumber(g.vertices), indices)]

\* the call in setupTerrain of both front-ends
ProgramMeshParameters == <<80000, 80000, 100, 100>>
ProgramMesh ==
    generateTerrainMesh(ProgramMeshParameters[1], ProgramMeshParameters[2],
                        ProgramMeshParameters[3], ProgramMeshParameters[4])

(***************************************************************************)
(* NoiseGenerator.h / NoiseGenerator.cpp.                                  *)
(* Fixed point: a coordinate is in halves (2.5f -> 5); fade is in 32nds,   *)
(* perlin2D, fbm2D and generateTerrainHeight in 2048ths, perlin3D in       *)
(* 65536ths, which is exact for perlin2D and perlin3D at coordinates in    *)
(* halves.  scale is in hundredths, persistence and lacunarity in tenths,  *)
(* amplitude and frequency in thousandths.                                 *)
(* std::mt19937 and std::shuffle belong to the standard library: the       *)
(* engine is a state that seed() sets from its argument alone and that     *)
(* every draw advances, the shuffle is Fisher-Yates over draws of it.       *)
(* Which numbers the library draws is implementation-defined: Libraries    *)
(* are two stand-ins, one of which is fixed when the program starts.       *)
(***************************************************************************)
RngModulus == 65536
Libraries == {[a |-> 25173, c |-> 13849], [a |-> 9301, c |-> 49297]}
\* std::mt19937::default_seed
DefaultSeed == 5489

\* m_rng.seed(seed)
seedRng(seed) == seed % RngModulus
\* one call of m_rng()
nextRng(lib, rng) == (lib.a * rng + lib.c) % RngModulus

swap(f, i, j) == [f EXCEPT ![i] = f[j], ![j] = f[i]]

\* one iteration of std::shuffle: S = [base, rng], position i
shuffleStep(lib, S, i) ==
    LET r == nextRng(lib, S.rng)
    IN  [base |-> swap(S.base, i, (r \div 16) % (i + 1)), rng |-> r]

\* the iterations of std::shuffle for positions hi down to lo, in that order
RECURSIVE shuffle(_, _, _, _)
shuffle(lib, S, hi, lo) ==
    IF S.rng < 0 THEN S
    ELSE IF hi = lo THEN shuffleStep(lib, S, hi)
    ELSE LET mid == (hi + lo + 1) \div 2
         IN  shuffle(lib, shuffle(lib, S, hi, mid), mid - 1, lo)

\* E = [permutation |-> m_permutation, rng |-> m_rng]
initializePermutationTable(lib, E) ==
    LET basePermutation == [i \in 0..255 |-> i]
        s == shuffle(lib, [base |-> basePermutation, rng |-> E.rng], 255, 1)
    IN  [permutation |-> [i \in 0..511 |-> s.base[i % 256]], rng |-> s.rng]

\* variant: the engine is not reseeded
setSeed_KeepEngine(lib, E, seed, clock) == initializePermutationTable(lib, E)

\* clock is what steady_clock::now() counts, as an unsigned int
setSeed(lib, E, seed, clock) ==
    LET used == IF seed = 0 THEN clock ELSE seed
    IN  initializePermutationTable(lib, [E EXCEPT !.rng = seedRng(used)])

NewNoiseGenerator(lib, seed, clock) ==
    setSeed(lib, [permutation |-> [i \in 0..511 |-> 0], rng |-> seedRng(DefaultSeed)],
            seed, clock)

\* t in halves, the result in 32nds
fade(t) == t * t * t * (t * (t * 6 - 30) + 40)

\* t in 32nds: the result has 32 times the denominator of a and b
lerp(a, b, t) == a * 32 + t * (b - a)

grad2(hash, x, y) ==
    LET h == hash % 4
        u == IF h < 2 THEN x ELSE -x
        v == IF h % 2 = 1 THEN y ELSE -y
    IN  u + v

grad3(hash, x, y, z) ==
    LET h == hash % 16
        u == IF h < 8 THEN x ELSE y
        v == IF h < 4 THEN y ELSE IF h = 12 \/ h = 14 THEN x ELSE z
    IN  (IF h % 2 = 0 THEN u ELSE -u) + (IF (h \div 2) % 2 = 0 THEN v ELSE -v)

\* std::floor of a coordinate in halves
floor(x) == x \div 2

\* Floats beyond the range of int: the coordinate Huge + k stands for the float
\* 2^k, 31 <= k <= 127, and Huge + 128 for +infinity, which is what a float
\* product of 2^128 or more rounds to.  NaN is the result of inf - inf.
Huge == 1000000
NaN == -Huge
finite(x) == x < Huge + 128

\* the power of two at or below a factor in thousandths
RECURSIVE binade(_)
binade(f) ==
    IF f >= 2000 THEN binade(f \div 2) + 1
    ELSE IF f < 1000 THEN binade(f * 2) - 1
    ELSE 0

\* the float product x * f of a coordinate and a factor f in thousandths
product(x, f) ==
    IF x >= Huge
    THEN LET k == (x - Huge) + binade(f)
         IN  Huge + (IF k > 128 THEN 128 ELSE k)
    ELSE (x * f) \div 1000

\* variant: the cell coordinate is not masked
cell_NoMask(c) == IF c >= Huge THEN 0 ELSE floor(c)

\* static_cast<int>(std::floor(c)) & 255.  For a float of 2^31 or more the
\* conversion is undefined; whatever int it yields, the mask leaves 0..255,
\* and 0 is what the x86 conversion instruction gives.
cell(c) == IF c >= Huge THEN 0 ELSE floor(c) % 256

\* c -= std::floor(c): a float of 2^24 or more has no fraction
fraction(c) == IF c >= Huge THEN 0 ELSE c - 2 * floor(c)

\* m_permutation[i]; a read past the vector is undefined and yields 0 here
read(m_permutation, i) == IF i \in DOMAIN m_permutation THEN m_permutation[i] ELSE 0

\* the indices perlin2D reads m_permutation at
lookups2D(m_permutation, x0, y0) ==
    LET X == cell(x0)
        Y == cell(y0)
        A == read(m_permutation, X) + Y
        AA == read(m_permutation, A)
        AB == read(m_permutation, A + 1)
        B == read(m_permutation, X + 1) + Y
        BA == read(m_permutation, B)
        BB == read(m_permutation, B + 1)
    IN  {X, A, A + 1, X + 1, B, B + 1, AA, BA, AB, BB}

\* the indices perlin3D reads m_permutation at
lookups3D(m_permutation, x0, y0, z0) ==
    LET X == cell(x0)
        Y == cell(y0)
        Z == cell(z0)
        A == read(m_permutation, X) + Y
        AA == read(m_permutation, A) + Z
        AB == read(m_permutation, A + 1) + Z
        B == read(m_permutation, X + 1) + Y
        BA == read(m_permutation, B) + Z
        BB == read(m_permutation, B + 1) + Z
    IN  {X, A, A + 1, X + 1, B, B + 1,
         AA, BA, AB, BB, AA + 1, BA + 1, AB + 1, BB + 1}

perlin2D(m_permutation, x0, y0) ==
    LET X == cell(x0)
        Y == cell(y0)
        x == fraction(x0)
        y == fraction(y0)
        u == fade(x)
        v == fade(y)
        A == read(m_permutation, X) + Y
        AA == read(m_permutation, A)
        AB == read(m_permutation, A + 1)
        B == read(m_permutation, X + 1) + Y
        BA == read(m_permutation, B)
        BB == read(m_permutation, B + 1)
    IN  IF ~finite(x0) \/ ~finite(y0) THEN NaN
        ELSE lerp(lerp(grad2(read(m_permutation, AA), x, y),
                       grad2(read(m_permutation, BA), x - 2, y), u),
                  lerp(grad2(read(m_permutation, AB), x, y - 2),
                       grad2(read(m_permutation, BB), x - 2, y - 2), u),
                  v)

perlin3D(m_permutation, x0, y0, z0) ==
    LET X == cell(x0)
        Y == cell(y0)
        Z == cell(z0)
        x == fraction(x0)
        y == fraction(y0)
        z == fraction(z0)
        u == fade(x)
        v == fade(y)
        w == fade(z)
        A == read(m_permutation, X) + Y
        AA == read(m_permutation, A) + Z
        AB == read(m_permutation, A + 1) + Z
        B == read(m_permutation, X + 1) + Y
        BA == read(m_permutation, B) + Z
        BB == read(m_permutation, B + 1) + Z
    IN  IF ~finite(x0) \/ ~finite(y0) \/ ~finite(z0) THEN NaN
        ELSE
        lerp(lerp(lerp(grad3(read(m_permutation, AA), x, y, z),
                       grad3(read(m_permutation, BA), x - 2, y, z), u),
                  lerp(grad3(read(m_permutation, AB), x, y - 2, z),
                       grad3(read(m_permutation, BB), x - 2, y - 2, z), u), v),
             lerp(lerp(grad3(read(m_permutation, AA + 1), x, y, z - 2),
                       grad3(read(m_permutation, BA + 1), x - 2, y, z - 2), u),
                  lerp(grad3(read(m_permutation, AB + 1), x, y - 2, z - 2),
                       grad3(read(m_permutation, BB + 1), x - 2, y - 2, z - 2), u), v),
             w)

\* the loop of fbm2D from octave i on, with the locals
\* L = [value, amplitude, frequency, maxValue]; value in 1/2048000, the other
\* three in thousandths
RECURSIVE fbmLoop(_, _, _, _, _, _, _, _)
fbmLoop(m_permutation, x, y, octaves, persistence, lacunarity, i, L) ==
    IF i >= octaves THEN L
    ELSE LET p == perlin2D(m_permutation, product(x, L.frequency),
                           product(y, L.frequency))
         IN  fbmLoop(m_permutation, x, y, octaves, persistence, lacunarity, i + 1,
                     [value |-> IF p = NaN \/ L.value = NaN THEN NaN
                                ELSE L.value + p * L.amplitude,
                      amplitude |-> (L.amplitude * persistence) \div 10,
                      frequency |-> (L.frequency * lacunarity) \div 10,
                      maxValue |-> L.maxValue + L.amplitude])

fbm2D(m_permutation, x, y, octaves, persistence, lacunarity) ==
    LET r == fbmLoop(m_permutation, x, y, octaves, persistence, lacunarity, 0,
                     [value |-> 0, amplitude |-> 1000, frequency |-> 1000,
                      maxValue |-> 0])
    IN  IF r.value = NaN THEN NaN ELSE r.value \div r.maxValue

abs(v) == IF v < 0 THEN -v ELSE v

\* the layers of generateTerrainHeight combined: each in 2048ths
combine(base, ridge, fine, heightScale) ==
    LET ridged == 2048 - abs(ridge)
        ridges == (ridged * ridged) \div 2048
        detail == fine \div 10
        height == (base * 7) \div 10 + (ridges * 2) \div 10 + detail
    IN  IF NaN \in {base, ridge, fine} THEN NaN
        ELSE (height \div 2 + 1024) * heightScale

generateTerrainHeight(m_permutation, x, z, scale, heightScale) ==
    LET scaledX == product(x, scale * 10)
        scaledZ == product(z, scale * 10)
    IN  combine(fbm2D(m_permutation, scaledX, scaledZ, 6, 5, 20),
                fbm2D(m_permutation, product(scaledX, 500), product(scaledZ, 500),
                      4, 6, 21),
                fbm2D(m_permutation, product(scaledX, 4000), product(scaledZ, 4000),
                      3, 3, 20),
                heightScale)

\* no NoiseGenerator object exists
NoEngine == [constructed |-> FALSE, seed |-> 0,
             permutation |-> [i \in 0..511 |-> 0], rng |-> 0]
NoNoise ==
    [stdlib |-> CHOOSE lib \in Libraries : lib.a = 25173,
     engines |-> [e \in 1..2 |-> NoEngine], value |-> 0]

(***************************************************************************)
(* Operations on the LightingConfig                                        *)
(***************************************************************************)
Call(op, arg, S) ==
    /\ lighting' = S.cfg
    /\ console' = S.out
    /\ last' = [op |-> op, arg |-> arg]
    /\ UNCHANGED postVars

Fresh == [cfg |-> lighting, out |-> NoOutput]

SetupDefaultLights == Call("setupDefaultLights", 0, setupDefaultLights(Fresh))
SetupSunsetLighting == Call("setupSunsetLighting", 0, setupSunsetLighting(Fresh))
SetupNightLighting == Call("setupNightLighting", 0, setupNightLighting(Fresh))

AddPointLight(light) == Call("addPointLight", light, addPointLight(Fresh, light))

ClearPointLights == Call("clearPointLights", 0, clearPointLights(Fresh))

\* GUIManager "Number of Point Lights" slider: pointLights.resize(numLights)
resizePointLights(lights, n) ==
    [i \in 1..n |-> IF i <= Len(lights) THEN lights[i] ELSE DefaultPointLight]

GuiSetNumPointLights(n) ==
    Call("guiSetNumPointLights", n,
         [Fresh EXCEPT !.cfg.pointLights = resizePointLights(@, n)])

GuiSetSunEnabled(b) ==
    Call("guiSetSunEnabled", b, [Fresh EXCEPT !.cfg.directionalLight.enabled = b])

GuiSetSunIntensity(v) ==
    Call("guiSetSunIntensity", v, [Fresh EXCEPT !.cfg.directionalLight.intensity = v])

GuiSetSunDirection ==
    Call("guiSetSunDirection", UserSunDirection,
         [Fresh EXCEPT !.cfg.directionalLight.direction = UserSunDirection])

GuiSetSunColor ==
    Call("guiSetSunColor", UserSunColor,
         [Fresh EXCEPT !.cfg.directionalLight.color = UserSunColor])

GuiSetFogColor ==
    Call("guiSetFogColor", UserFogColor,
         [Fresh EXCEPT !.cfg.atmosphere.fogColor = UserFogColor])

GuiSetAnimate(b) ==
    Call("guiSetAnimate", b, [Fresh EXCEPT !.cfg.timeOfDay.animateTimeOfDay = b])

GuiSetTimeOfDay(t) ==
    Call("guiSetTimeOfDay", t, [Fresh EXCEPT !.cfg.timeOfDay.timeOfDay = t])

GuiSetDaySpeed(s) ==
    Call("guiSetDaySpeed", s, [Fresh EXCEPT !.cfg.timeOfDay.daySpeed = s])

UpdateTimeOfDay(deltaTime) ==
    /\ lighting.timeOfDay.timeOfDay + deltaTime * lighting.timeOfDay.daySpeed <= MaxTimeSum
    /\ Call("updateTimeOfDay", deltaTime, updateTimeOfDay(Fresh, deltaTime))

(***************************************************************************)
(* The OpenGL context                                                      *)
(***************************************************************************)
\* glGen*: a name not in use (the smallest one)
glGenName(used) ==
    CHOOSE n \in 1..(Cardinality(used) + 1) :
        n \notin used /\ \A m \in 1..(n - 1) : m \in used

\* the context after TerrainRenderer::initialize did glEnable(GL_DEPTH_TEST).
\* Which names glGen* returns is up to the driver: recycle tells whether it
\* hands out deleted names again, the retired sets are the names it will not.
NewContext ==
    [framebufferBinding |-> 0, depthTest |-> TRUE,
     framebuffers |-> {}, textures |-> {}, incomplete |-> {},
     recycle |-> TRUE, retiredFramebuffers |-> {}, retiredTextures |-> {}]

\* glBindFramebuffer in the core profile main.cpp asks for: a name that
\* glGenFramebuffers did not return (or that was deleted) is
\* GL_INVALID_OPERATION and the binding stays
bindFramebuffer(G, fbo) ==
    IF fbo = 0 \/ fbo \in G.framebuffers
    THEN [G EXCEPT !.framebufferBinding = fbo]
    ELSE G

\* glDeleteFramebuffers: zero is ignored; a bound framebuffer is unbound
glDeleteFramebuffers(G, names) ==
    [G EXCEPT !.framebuffers = @ \ names,
              !.incomplete = @ \ names,
              !.retiredFramebuffers =
                  IF G.recycle THEN @ ELSE @ \cup (names \cap G.framebuffers),
              !.framebufferBinding = IF @ \in names THEN 0 ELSE @]

glDeleteTextures(G, names) ==
    [G EXCEPT !.textures = @ \ names,
              !.retiredTextures =
                  IF G.recycle THEN @ ELSE @ \cup (names \cap G.textures)]

(***************************************************************************)
(* PostProcessor.h / PostProcessor.cpp                                     *)
(***************************************************************************)
\* PostProcessor::Config and its default member initialisers
Config ==
    [enableBloom |-> TRUE, bloomThreshold |-> 1000, bloomIntensity |-> 800,
     bloomBlurPasses |-> 5,
     enableDOF |-> TRUE, focusDistance |-> 10000, focusRange |-> 5000,
     bokehRadius |-> 3000,
     enableChromaticAberration |-> TRUE, aberrationStrength |-> 500,
     exposure |-> 1000, gamma |-> 2200]

\* the members before the constructor body runs
NewPostProcessorMembers(width, height) ==
    [width |-> width, height |-> height, config |-> Config,
     mainFBO |-> 0, colorTexture |-> 0, depthTexture |-> 0,
     pingPongFBO |-> [i \in 0..1 |-> 0], pingPongTexture |-> [i \in 0..1 |-> 0],
     quadVAO |-> 0, quadVBO |-> 0,
     brightPassShader |-> FALSE, blurShader |-> FALSE, finalShader |-> FALSE]

\* vertex arrays and buffers have name spaces of their own
initQuad(P) == [P EXCEPT !.quadVAO = 1, !.quadVBO = 1]

\* the three make_unique<Shader> in one try block: the first `loaded' succeed
initShaders(P, loaded) ==
    [P EXCEPT !.brightPassShader = (loaded >= 1),
              !.blurShader = (loaded >= 2),
              !.finalShader = (loaded >= 3)]

\* `complete' is what glCheckFramebufferStatus reports for the main target
initFramebuffers(P, G, complete) ==
    LET fbos == G.framebuffers \cup G.retiredFramebuffers
        texs == G.textures \cup G.retiredTextures
        mainFBO == glGenName(fbos)
        colorTexture == glGenName(texs)
        depthTexture == glGenName(texs \cup {colorTexture})
        fbo0 == glGenName(fbos \cup {mainFBO})
        fbo1 == glGenName(fbos \cup {mainFBO, fbo0})
        tex0 == glGenName(texs \cup {colorTexture, depthTexture})
        tex1 == glGenName(texs \cup {colorTexture, depthTexture, tex0})
    IN  [pp |-> [P EXCEPT !.mainFBO = mainFBO,
                          !.colorTexture = colorTexture,
                          !.depthTexture = depthTexture,
                          !.pingPongFBO = [i \in 0..1 |-> IF i = 0 THEN fbo0 ELSE fbo1],
                          !.pingPongTexture = [i \in 0..1 |-> IF i = 0 THEN tex0 ELSE tex1]],
         gl |-> [G EXCEPT !.framebuffers = @ \cup {mainFBO, fbo0, fbo1},
                          !.textures = @ \cup {colorTexture, depthTexture, tex0, tex1},
                          !.incomplete = IF complete THEN @ ELSE @ \cup {mainFBO},
                          !.framebufferBinding = 0]]

MsgInvalidResize == "Invalid resize dimensions"
MsgResized == "PostProcessor resized"

\* cleanupFramebuffers: the saved binding is bound again at the end whether
\* or not the framebuffer it names was just deleted
cleanupFramebuffers(P, G) ==
    LET currentFBO == G.framebufferBinding
        unbound == bindFramebuffer(G, 0)
        noFBOs == glDeleteFramebuffers(unbound,
                      {P.mainFBO, P.pingPongFBO[0], P.pingPongFBO[1]} \ {0})
        noTextures == glDeleteTextures(noFBOs,
                          {P.colorTexture, P.depthTexture,
                           P.pingPongTexture[0], P.pingPongTexture[1]} \ {0})
    IN  [pp |-> [P EXCEPT !.mainFBO = 0, !.colorTexture = 0, !.depthTexture = 0,
                          !.pingPongFBO = [i \in 0..1 |-> 0],
                          !.pingPongTexture = [i \in 0..1 |-> 0]],
         gl |-> IF currentFBO > 0 THEN bindFramebuffer(noTextures, currentFBO)
                ELSE noTextures]

\* cleanup, called by the destructor: the targets and the quad
cleanup(P, G) ==
    LET c == cleanupFramebuffers(P, G)
    IN  [pp |-> [c.pp EXCEPT !.quadVAO = 0, !.quadVBO = 0], gl |-> c.gl]

\* variant: resize builds the whole post-processor anew
reallocate_Reconstruct(P, G, width, height, complete) ==
    LET currentFBO == G.framebufferBinding
        c == cleanup(P, G)
        i == initFramebuffers(
                 initShaders(initQuad(NewPostProcessorMembers(width, height)), 3),
                 c.gl, complete)
    IN  [pp |-> i.pp, gl |-> bindFramebuffer(i.gl, currentFBO), out |-> MsgResized]

\* the reallocating part of resize
reallocate(P, G, width, height, complete) ==
    LET currentFBO == G.framebufferBinding
        c == cleanupFramebuffers([P EXCEPT !.width = width, !.height = height], G)
        i == initFramebuffers(c.pp, c.gl, complete)
    IN  [pp |-> IF i.pp.quadVAO = 0 THEN initQuad(i.pp) ELSE i.pp,
         gl |-> bindFramebuffer(i.gl, currentFBO),
         out |-> MsgResized]

\* variant: no test for unchanged dimensions
resize_AlwaysReallocate(P, G, width, height, complete) ==
    IF width <= 0 \/ height <= 0
    THEN [pp |-> P, gl |-> G, out |-> MsgInvalidResize]
    ELSE reallocate(P, G, width, height, complete)

\* PostProcessor::resize
resize(P, G, width, height, complete) ==
    IF width = P.width /\ height = P.height
    THEN [pp |-> P, gl |-> G, out |-> NoOutput]
    ELSE IF width <= 0 \/ height <= 0
    THEN [pp |-> P, gl |-> G, out |-> MsgInvalidResize]
    ELSE reallocate(P, G, width, height, complete)

\* PostProcessor::PostProcessor
NewPostProcessor(width, height, G, loaded, complete) ==
    initFramebuffers(initShaders(initQuad(NewPostProcessorMembers(width, height)), loaded),
                     G, complete)

(***************************************************************************)
(* One frame.  The calls of a frame thread the record                      *)
(*   X = [gl, black, log, out, thrown, bloomStarted, bloomFailed]           *)
(* gl and black are the context and the static blackTexture, log the       *)
(* passes drawn so far, thrown whether an exception is propagating.        *)
(***************************************************************************)
Event(op, X, tex0, tex2, horizontal) ==
    [op |-> op, fbo |-> X.gl.framebufferBinding, tex0 |-> tex0, tex2 |-> tex2,
     horizontal |-> horizontal, depthTest |-> X.gl.depthTest]

Emit(X, e) == [X EXCEPT !.log = Append(@, e)]

glBindFramebuffer(X, fbo) == [X EXCEPT !.gl = bindFramebuffer(X.gl, fbo)]

WarnNoMainFBO == "Warning: Main FBO not initialized in beginFrame!"
WarnIncomplete == "Framebuffer not complete in beginFrame"
WarnNotInitialized == "Warning: PostProcessor not properly initialized for endFrame"
MsgBloomFailed == "Bloom processing failed"
MsgFinalNull == "Final shader is null!"
MsgColorInvalid == "Color texture is invalid!"
MsgNoQuad == "Error: Quad VAO not initialized!"
MsgPostError == "Post-processing error"
MsgDrawError == "OpenGL error after draw arrays"

renderQuad(P, X, e) ==
    IF P.quadVAO = 0 THEN [X EXCEPT !.out = MsgNoQuad] ELSE Emit(X, e)

beginFrame(P, X) ==
    LET entered == Emit(X, Event("beginFrame", X, 0, 0, FALSE))
    IN  IF P.mainFBO = 0
        THEN [entered EXCEPT !.out = WarnNoMainFBO]
        ELSE LET bound == glBindFramebuffer(entered, P.mainFBO)
             IN  IF P.mainFBO \in bound.gl.incomplete
                 THEN [glBindFramebuffer(bound, 0) EXCEPT !.out = WarnIncomplete]
                 ELSE bound

\* glClear(GL_COLOR_BUFFER_BIT ...) on the bound framebuffer; screen is what
\* the default framebuffer holds
glClear(X) ==
    IF X.gl.framebufferBinding = 0 THEN [X EXCEPT !.screen = "cleared"] ELSE X

\* TerrainRenderer::renderScene draws into whatever framebuffer is bound
MsgMeshNull == "Terrain mesh is null! Cannot render terrain."

\* without a mesh TerrainRenderer::renderScene returns at once and
\* TerrainViewer::renderScene returns after its glClear
renderScene(R, X) ==
    IF R.terrainMesh
    THEN Emit([X EXCEPT !.screen = IF X.gl.framebufferBinding = 0 THEN "scene" ELSE @],
              Event("scene", X, 0, 0, FALSE))
    ELSE IF R.frontEnd = "qt" THEN [glClear(X) EXCEPT !.out = MsgMeshNull]
    ELSE X

\* the blur loop of applyBloom; throwAt = i + 1 makes iteration i throw
\* after its target is bound and before it draws
RECURSIVE blurLoop(_, _, _, _, _)
blurLoop(P, X, i, horizontal, throwAt) ==
    IF ~(i < P.config.bloomBlurPasses) THEN X
    ELSE LET bound == glBindFramebuffer(X, P.pingPongFBO[IF horizontal THEN 1 ELSE 0])
         IN  IF throwAt = i + 1
             THEN [bound EXCEPT !.thrown = TRUE]
             ELSE blurLoop(P,
                           renderQuad(P, bound,
                               Event("blur", bound,
                                     P.pingPongTexture[IF horizontal THEN 0 ELSE 1],
                                     0, horizontal)),
                           i + 1, ~horizontal, throwAt)

\* variant: the bright areas are extracted into the second ping-pong target
applyBloom_BrightToOne(P, X, throwAt) ==
    LET bound == glBindFramebuffer(X, P.pingPongFBO[1])
    IN  IF throwAt = 0
        THEN [bound EXCEPT !.thrown = TRUE]
        ELSE blurLoop(P,
                      renderQuad(P, bound,
                                 Event("brightPass", bound, P.colorTexture, 0, FALSE)),
                      0, TRUE, throwAt)

\* variant: the first blur pass vertical
applyBloom_VerticalFirst(P, X, throwAt) ==
    LET bound == glBindFramebuffer(X, P.pingPongFBO[0])
    IN  IF throwAt = 0
        THEN [bound EXCEPT !.thrown = TRUE]
        ELSE blurLoop(P,
                      renderQuad(P, bound,
                                 Event("brightPass", bound, P.colorTexture, 0, FALSE)),
                      0, FALSE, throwAt)

\* throwAt = 0 makes the bright-pass extraction throw before it draws
applyBloom(P, X, throwAt) ==
    LET bound == glBindFramebuffer(X, P.pingPongFBO[0])
    IN  IF throwAt = 0
        THEN [bound EXCEPT !.thrown = TRUE]
        ELSE blurLoop(P,
                      renderQuad(P, bound,
                                 Event("brightPass", bound, P.colorTexture, 0, FALSE)),
                      0, TRUE, throwAt)

\* endFrame, step 1: bloom inside its try/catch
bloomStage(P, X, fault) ==
    IF P.config.enableBloom /\ P.brightPassShader /\ P.blurShader
    THEN LET b == applyBloom(P, [X EXCEPT !.bloomStarted = TRUE], fault.bloom)
         IN  IF b.thrown
             THEN [b EXCEPT !.thrown = FALSE, !.bloomFailed = TRUE, !.out = MsgBloomFailed,
                            !.diagnostics = @ + 1]
             ELSE b
    ELSE X

\* endFrame, the texture bound to unit 2
bindBloomTexture(P, X) ==
    IF P.config.enableBloom /\ P.pingPongTexture[0] # 0
    THEN [x |-> X, tex |-> P.pingPongTexture[0]]
    ELSE IF X.black = 0
         THEN LET t == glGenName(X.gl.textures \cup X.gl.retiredTextures)
              IN  [x |-> [X EXCEPT !.black = t, !.gl.textures = @ \cup {t}], tex |-> t]
         ELSE [x |-> X, tex |-> X.black]

Return(X) == Emit(X, Event("endFrame", X, 0, 0, FALSE))

\* the composite quad: it shows this frame's scene if the scene was drawn
\* into the main target, and whatever the color texture held otherwise.
\* fault.glError makes glDrawArrays raise an error code: nothing is drawn
\* and renderQuad's glGetError logs it.
compositeQuad(P, X, tex2, fault) ==
    IF fault.glError /\ P.quadVAO # 0
    THEN [X EXCEPT !.out = MsgDrawError, !.diagnostics = @ + 1]
    ELSE LET drawn == renderQuad(P, X, Event("composite", X, P.colorTexture, tex2, FALSE))
             captured == \E i \in DOMAIN X.log :
                            X.log[i].op = "scene" /\ X.log[i].fbo = P.mainFBO
         IN  IF P.quadVAO = 0 \/ X.gl.framebufferBinding # 0 THEN drawn
             ELSE [drawn EXCEPT !.screen = IF captured THEN "composite"
                                           ELSE "staleComposite"]

\* variant: the default framebuffer not bound again after the bloom passes
finalComposite_NoRebind(P, X, fault) ==
    LET x1 == [glClear(X) EXCEPT !.gl.depthTest = FALSE]
    IN  IF ~P.finalShader THEN Return([x1 EXCEPT !.out = MsgFinalNull])
        ELSE IF P.colorTexture = 0 THEN Return([x1 EXCEPT !.out = MsgColorInvalid])
        ELSE LET sel == bindBloomTexture(P, x1)
             IN  IF fault.composite
                 THEN [sel.x EXCEPT !.thrown = TRUE]
                 ELSE Return([compositeQuad(P, sel.x, sel.tex, fault)
                              EXCEPT !.gl.depthTest = TRUE])

\* endFrame, step 2: the final composite; fault.composite makes a uniform
\* setter throw before the quad is drawn
finalComposite(P, X, fault) ==
    LET x1 == [glClear(glBindFramebuffer(X, 0)) EXCEPT !.gl.depthTest = FALSE]
    IN  IF ~P.finalShader THEN Return([x1 EXCEPT !.out = MsgFinalNull])
        ELSE IF P.colorTexture = 0 THEN Return([x1 EXCEPT !.out = MsgColorInvalid])
        ELSE LET sel == bindBloomTexture(P, x1)
             IN  IF fault.composite
                 THEN [sel.x EXCEPT !.thrown = TRUE]
                 ELSE Return([compositeQuad(P, sel.x, sel.tex, fault)
                              EXCEPT !.gl.depthTest = TRUE])

endFrame(P, X, fault) ==
    IF P.mainFBO = 0 \/ P.colorTexture = 0
    THEN Return([glClear(glBindFramebuffer(X, 0)) EXCEPT !.out = WarnNotInitialized])
    ELSE finalComposite(P, bloomStage(P, glBindFramebuffer(X, 0), fault), fault)

(***************************************************************************)
(* TerrainRenderer                                                         *)
(***************************************************************************)
\* the PostProcessor::Config that setupPostProcessing installs
RendererConfig ==
    [Config EXCEPT !.enableBloom = TRUE, !.bloomThreshold = 700, !.bloomIntensity = 1200,
                   !.bloomBlurPasses = 6, !.enableDOF = FALSE,
                   !.enableChromaticAberration = TRUE, !.aberrationStrength = 800,
                   !.exposure = 1000, !.gamma = 2200]

\* TerrainRenderer::setupLighting, the HDR environment aside
setupLighting(S) ==
    [setupDefaultLights(S) EXCEPT !.cfg.atmosphere.enableAtmosphericFog = TRUE,
                                  !.cfg.atmosphere.fogDensity = 15,
                                  !.cfg.atmosphere.fogHeightFalloff = 80,
                                  !.cfg.atmosphere.atmosphericPerspective = 700,
                                  !.cfg.timeOfDay.animateTimeOfDay = TRUE,
                                  !.cfg.timeOfDay.daySpeed = 5,
                                  !.cfg.timeOfDay.timeOfDay = 300]

\* TerrainRenderer::render, after the time-of-day update
render(R, P, X, fault) ==
    IF R.postProcessor /\ R.postProcessingEnabled
    THEN LET e == endFrame(P, renderScene(R, beginFrame(P, X)), fault)
         IN  IF e.thrown
             THEN [x |-> renderScene(R, glBindFramebuffer(
                             [e EXCEPT !.thrown = FALSE, !.out = MsgPostError,
                                       !.diagnostics = @ + 1], 0)),
                   enabled |-> FALSE, path |-> "fallback"]
             ELSE [x |-> e, enabled |-> R.postProcessingEnabled, path |-> "post"]
    ELSE [x |-> renderScene(R, glBindFramebuffer(X, 0)),
          enabled |-> R.postProcessingEnabled, path |-> "direct"]

\* frame clock: a stalled 10 s frame, half a day at the renderer's day speed
FrameTimes == {100}
\* what goes wrong in a frame: an exception in pass k of applyBloom
\* (-1: none), an exception in the final composite, or a GL error code
\* raised by the composite's draw call
Faults ==
    {[bloom |-> k, composite |-> FALSE, glError |-> FALSE] : k \in -1..MaxBlurPasses}
        \cup {[bloom |-> -1, composite |-> TRUE, glError |-> FALSE],
              [bloom |-> -1, composite |-> FALSE, glError |-> TRUE]}
\* shader programs that initShaders managed to create
ShadersLoaded == 0..3
\* bloom_iterations values a settings.txt may hold
FileIterations == {-1, 0, MaxBlurPasses}
\* the initial window size, main.cpp
InitialSize == <<1600, 1200>>

\* TerrainRenderer after initialize: setupPostProcessing created the
\* compositor and left post-processing switched off
NewRenderer ==
    [frontEnd |-> "glfw", initialized |-> TRUE, running |-> TRUE, terrainMesh |-> TRUE,
     postProcessor |-> TRUE, postProcessingEnabled |-> FALSE,
     width |-> InitialSize[1], height |-> InitialSize[2],
     keysPressed |-> {}, lastFrameIntact |-> TRUE]

NoFault == [bloom |-> -1, composite |-> FALSE, glError |-> FALSE]
CompositeFault == [bloom |-> -1, composite |-> TRUE, glError |-> FALSE]

NoFrame ==
    [path |-> "none", log |-> <<>>, bloomStarted |-> FALSE, bloomFailed |-> FALSE,
     screen |-> "stale", diagnostics |-> 0]

\* what has happened in the session so far: caught, whether render's handler
\* has caught a post-processing error
NewSession == [caught |-> FALSE]

\* the context record at the start of a frame
NewFrame(out) ==
    [gl |-> gl, black |-> blackTexture, log |-> <<>>, out |-> out,
     thrown |-> FALSE, bloomStarted |-> FALSE, bloomFailed |-> FALSE,
     screen |-> "stale", diagnostics |-> 0]

Render(deltaTime, fault) ==
    LET S == updateTimeOfDay(Fresh, deltaTime)
        X == NewFrame(S.out)
        r == render(renderer, pp, X, fault)
    IN  /\ renderer.frontEnd = "glfw"
        /\ renderer.initialized /\ renderer.running
        /\ UNCHANGED <<mesh, noise>>
        /\ lighting' = S.cfg
        /\ gl' = r.x.gl
        /\ blackTexture' = r.x.black
        /\ frame' = [path |-> r.path, log |-> r.x.log,
                     bloomStarted |-> r.x.bloomStarted, bloomFailed |-> r.x.bloomFailed,
                     screen |-> r.x.screen, diagnostics |-> r.x.diagnostics]
        /\ session' = [caught |-> session.caught \/ r.path = "fallback"]
        /\ renderer' = [renderer EXCEPT !.postProcessingEnabled = r.enabled]
        /\ console' = r.x.out
        /\ last' = [op |-> "render", arg |-> 0]
        /\ UNCHANGED pp

CallPost(op, arg, out) ==
    /\ console' = out
    /\ last' = [op |-> op, arg |-> arg]
    /\ frame' = NoFrame
    /\ UNCHANGED <<lighting, gl, blackTexture, session, mesh, noise>>

\* GLFW key codes and key actions
GLFW_KEY_UNKNOWN == -1
GLFW_KEY_1 == 49
GLFW_KEY_2 == 50
GLFW_KEY_3 == 51
GLFW_KEY_R == 82
GLFW_KEY_W == 87
GLFW_KEY_ESCAPE == 256
GLFW_KEY_TAB == 258
GLFW_RELEASE == 0
GLFW_PRESS == 1
GLFW_REPEAT == 2

\* bool m_keysPressed[1024]: keysPressed is the set of subscripts whose entry
\* is true
KeysPressedSize == 1024

\* key_callback hands the event to processKeyboard unless it is one of the
\* presses it handles itself
delivered(key, action) ==
    ~(action = GLFW_PRESS /\ key \in {GLFW_KEY_ESCAPE, GLFW_KEY_TAB, GLFW_KEY_R})

\* TerrainRenderer::processKeyboard.  written is the set of subscripts it
\* stores through.  A store through a subscript outside the array is undefined:
\* stray tells whether it changed the member in front of the array,
\* m_lastFrame, or nothing that is read again.
processKeyboard(R, P, key, action, stray) ==
    LET stores == action = GLFW_PRESS \/ action = GLFW_RELEASE
        inside == key \in 0..(KeysPressedSize - 1)
        keys == IF ~stores \/ ~inside THEN R.keysPressed
                ELSE IF action = GLFW_PRESS THEN R.keysPressed \cup {key}
                ELSE R.keysPressed \ {key}
        toggles == action = GLFW_PRESS /\ R.postProcessor
    IN  [renderer |-> [R EXCEPT !.keysPressed = keys,
                                !.lastFrameIntact = @ /\ ~(stores /\ ~inside /\ stray)],
         written |-> IF stores THEN {key} ELSE {},
         pp |-> IF toggles /\ key = GLFW_KEY_1 THEN [P EXCEPT !.config.enableBloom = ~@]
                ELSE IF toggles /\ key = GLFW_KEY_2 THEN [P EXCEPT !.config.enableDOF = ~@]
                ELSE IF toggles /\ key = GLFW_KEY_3
                THEN [P EXCEPT !.config.enableChromaticAberration = ~@]
                ELSE P,
         out |-> IF toggles /\ key = GLFW_KEY_1
                 THEN (IF P.config.enableBloom THEN "Bloom disabled" ELSE "Bloom enabled")
                 ELSE IF toggles /\ key = GLFW_KEY_2
                 THEN (IF P.config.enableDOF THEN "Depth of Field disabled"
                       ELSE "Depth of Field enabled")
                 ELSE IF toggles /\ key = GLFW_KEY_3
                 THEN (IF P.config.enableChromaticAberration
                       THEN "Chromatic Aberration disabled"
                       ELSE "Chromatic Aberration enabled")
                 ELSE NoOutput]

\* key 1: processKeyboard -> toggleBloom
ToggleBloom ==
    /\ renderer.postProcessor
    /\ pp' = [pp EXCEPT !.config.enableBloom = ~@]
    /\ UNCHANGED renderer
    /\ CallPost("toggleBloom", 0,
                IF pp.config.enableBloom THEN "Bloom disabled" ELSE "Bloom enabled")

\* GUIManager::renderPostProcessingSettings, the "Enable Post-Processing" box
GuiSetPostProcessingEnabled(b) ==
    /\ renderer.frontEnd = "glfw"
    /\ renderer' = [renderer EXCEPT !.postProcessingEnabled = b]
    /\ UNCHANGED pp
    /\ CallPost("guiSetPostProcessingEnabled", b, NoOutput)

\* GUIManager::renderPostProcessingSettings, the "Blur Passes" slider (from 1),
\* offered only while post-processing is enabled
GuiSetBlurPasses(n) ==
    /\ renderer.postProcessor /\ renderer.postProcessingEnabled
    /\ pp' = [pp EXCEPT !.config.bloomBlurPasses = n]
    /\ UNCHANGED renderer
    /\ CallPost("guiSetBlurPasses", n, NoOutput)

\* loadConfiguration on a settings.txt whose [Post-Processing] section holds
\* enable_post_processing, enable_bloom and bloom_iterations
LoadConfiguration(enabled, bloom, iterations) ==
    /\ renderer' = [renderer EXCEPT !.postProcessingEnabled = enabled]
    /\ pp' = IF renderer.postProcessor
             THEN [pp EXCEPT !.config.enableBloom = bloom,
                             !.config.bloomBlurPasses = iterations]
             ELSE pp
    /\ CallPost("loadConfiguration", <<enabled, bloom, iterations>>,
                "Configuration loaded successfully!")

Init ==
    /\ lighting = NewLightingConfig.cfg
    /\ console = NewLightingConfig.out
    /\ last = [op |-> "LightingConfig", arg |-> 0]
    /\ LET made == NewPostProcessor(InitialSize[1], InitialSize[2], NewContext, 3, TRUE)
       IN  /\ pp = made.pp
           /\ gl = made.gl
    /\ renderer = NewRenderer
    /\ blackTexture = 0
    /\ frame = NoFrame
    /\ session = NewSession
    /\ mesh = ProgramMesh
    /\ noise = NoNoise

\* point lights and presets
NextLights ==
    \/ SetupDefaultLights
    \/ SetupSunsetLighting
    \/ SetupNightLighting
    \/ \E light \in UserLights : AddPointLight(light)
    \/ ClearPointLights
    \/ \E n \in GuiNumLights : GuiSetNumPointLights(n)
    \/ \E b \in BOOLEAN : GuiSetSunEnabled(b)
    \/ \E v \in UserSunIntensities : GuiSetSunIntensity(v)
    \/ GuiSetSunDirection
    \/ GuiSetSunColor

SpecLights == Init /\ [][NextLights]_vars

\* the time-of-day integrator and what is written between updates
NextTime ==
    \/ \E deltaTime \in DeltaTimes : UpdateTimeOfDay(deltaTime)
    \/ \E t \in SliderTimes : GuiSetTimeOfDay(t)
    \/ \E b \in BOOLEAN : GuiSetAnimate(b)
    \/ \E s \in DaySpeeds : GuiSetDaySpeed(s)
    \/ \E v \in UserSunIntensities : GuiSetSunIntensity(v)
    \/ GuiSetFogColor
    \/ SetupDefaultLights
    \/ SetupSunsetLighting
    \/ SetupNightLighting

SpecTime == Init /\ [][NextTime]_vars

\* the state after TerrainRenderer::initialize
InitRenderer ==
    /\ lighting = setupLighting(NewLightingConfig).cfg
    /\ console = "TerrainRenderer initialized successfully!"
    /\ last = [op |-> "initialize", arg |-> 0]
    /\ \E loaded \in ShadersLoaded, complete \in BOOLEAN :
          LET made == NewPostProcessor(InitialSize[1], InitialSize[2], NewContext,
                                       loaded, complete)
          IN  /\ pp = [made.pp EXCEPT !.config = RendererConfig]
              /\ gl = made.gl
    /\ renderer = NewRenderer
    /\ blackTexture = 0
    /\ frame = NoFrame
    /\ session = NewSession
    /\ mesh = ProgramMesh
    /\ noise = NoNoise

(***************************************************************************)
(* The PostProcessor's public interface, called by a client that owns one  *)
(***************************************************************************)
\* sizes passed to resize
ResizeSizes == {<<1600, 1200>>, <<800, 600>>, <<0, 600>>, <<800, -1>>}

ApiCall(op, arg, P, G, black, out) ==
    /\ renderer.postProcessor
    /\ pp' = P
    /\ gl' = G
    /\ blackTexture' = black
    /\ console' = out
    /\ last' = [op |-> op, arg |-> arg]
    /\ frame' = NoFrame
    /\ UNCHANGED <<lighting, session, mesh, noise>>

BeginFrame ==
    LET x == beginFrame(pp, NewFrame(NoOutput))
    IN  /\ ApiCall("beginFrame", 0, pp, x.gl, x.black, x.out)
        /\ UNCHANGED renderer

EndFrame ==
    LET x == endFrame(pp, NewFrame(NoOutput), NoFault)
    IN  /\ ApiCall("endFrame", 0, pp, x.gl, x.black, x.out)
        /\ UNCHANGED renderer

\* a driver that does not recycle names hands out new ones on every
\* reallocation: at most MaxReallocations of them
Resize(width, height) ==
    LET r == resize(pp, gl, width, height, TRUE)
    IN  /\ Cardinality(gl.retiredFramebuffers) < 3 * MaxReallocations
        /\ ApiCall("resize", <<width, height>>, r.pp, r.gl, blackTexture, r.out)
        /\ UNCHANGED renderer

\* ~PostProcessor
Destroy ==
    LET c == cleanup(pp, gl)
    IN  /\ ApiCall("destroy", 0, c.pp, c.gl, blackTexture, NoOutput)
        /\ renderer' = [renderer EXCEPT !.postProcessor = FALSE]

\* a freshly constructed PostProcessor on either kind of driver
InitCompositor ==
    /\ lighting = NewLightingConfig.cfg
    /\ console = "PostProcessor initialized"
    /\ last = [op |-> "PostProcessor", arg |-> 0]
    /\ \E recycle \in BOOLEAN :
          LET made == NewPostProcessor(InitialSize[1], InitialSize[2],
                                       [NewContext EXCEPT !.recycle = recycle], 3, TRUE)
          IN  /\ pp = made.pp
              /\ gl = made.gl
    /\ renderer = NewRenderer
    /\ blackTexture = 0
    /\ frame = NoFrame
    /\ session = NewSession
    /\ mesh = ProgramMesh
    /\ noise = NoNoise

NextCompositor ==
    \/ BeginFrame
    \/ EndFrame
    \/ \E size \in ResizeSizes : Resize(size[1], size[2])
    \/ ToggleBloom
    \/ Destroy

SpecCompositor == InitCompositor /\ [][NextCompositor]_vars

\* the PostProcessor as TerrainRenderer holds it, on either kind of driver;
\* none of the GL calls of the constructor is checked: glGenVertexArrays may
\* have left m_quadVAO at its initialiser 0, and any of the programs may be
\* missing
InitResize ==
    /\ lighting = NewLightingConfig.cfg
    /\ console = "PostProcessor initialized"
    /\ last = [op |-> "PostProcessor", arg |-> 0]
    /\ \E recycle \in BOOLEAN, loaded \in ShadersLoaded, quad \in BOOLEAN :
          LET made == NewPostProcessor(InitialSize[1], InitialSize[2],
                                       [NewContext EXCEPT !.recycle = recycle],
                                       loaded, TRUE)
          IN  /\ pp = [made.pp EXCEPT !.config = RendererConfig,
                                      !.quadVAO = IF quad THEN @ ELSE 0,
                                      !.quadVBO = IF quad THEN @ ELSE 0]
              /\ gl = made.gl
    /\ renderer = NewRenderer
    /\ blackTexture = 0
    /\ frame = NoFrame
    /\ session = NewSession
    /\ mesh = ProgramMesh
    /\ noise = NoNoise

SpecResize == InitResize /\ [][NextCompositor]_vars

(***************************************************************************)
(* TerrainViewer, the Qt front-end, and window resizes                     *)
(***************************************************************************)
\* the widget's size before the first resizeGL
ViewerSize == <<800, 600>>

\* the PostProcessor::Config that initializeGL installs
ViewerConfig == [RendererConfig EXCEPT !.focusDistance = 15000]

\* TerrainViewer::setupLighting; it runs before the HDR environment is loaded
viewerSetupLighting(S) ==
    [setupLighting(S) EXCEPT !.cfg.ibl.enabled = FALSE,
                             !.cfg.ibl.intensity = 800,
                             !.cfg.pom.scale = 100,
                             !.cfg.pom.maxSamples = 48,
                             !.cfg.terrain.grassHeight = 1000,
                             !.cfg.terrain.rockHeight = 6000,
                             !.cfg.terrain.snowHeight = 10000]

\* TerrainViewer after initializeGL; postProcessingEnabled stands for
\* !postProcessingFailed
NewViewer ==
    [frontEnd |-> "qt", initialized |-> TRUE, running |-> TRUE, terrainMesh |-> TRUE,
     postProcessor |-> TRUE, postProcessingEnabled |-> TRUE,
     width |-> ViewerSize[1], height |-> ViewerSize[2]]

MsgViewerError == "=== POST-PROCESSING ERROR DETECTED ==="

\* the rendering part of TerrainViewer::paintGL
paintGL(R, P, X, fault) ==
    IF R.postProcessor /\ R.postProcessingEnabled
    THEN LET e == endFrame(P, renderScene(R, beginFrame(P, X)), fault)
         IN  IF e.thrown
             THEN LET c == cleanup(P, e.gl)
                  IN  [x |-> renderScene(R, [e EXCEPT !.thrown = FALSE, !.out = MsgViewerError,
                                                      !.diagnostics = @ + 1, !.gl = c.gl]),
                       pp |-> c.pp, failed |-> TRUE, path |-> "fallback"]
             ELSE [x |-> e, pp |-> P, failed |-> FALSE, path |-> "post"]
    ELSE [x |-> renderScene(R, X), pp |-> P, failed |-> FALSE, path |-> "direct"]

PaintGL(deltaTime, fault) ==
    LET S == updateTimeOfDay(Fresh, deltaTime)
        r == paintGL(renderer, pp, NewFrame(S.out), fault)
    IN  /\ renderer.frontEnd = "qt"
        /\ renderer.initialized /\ renderer.running
        /\ UNCHANGED <<mesh, noise>>
        /\ lighting' = S.cfg
        /\ pp' = r.pp
        /\ gl' = r.x.gl
        /\ blackTexture' = r.x.black
        /\ frame' = [path |-> r.path, log |-> r.x.log,
                     bloomStarted |-> r.x.bloomStarted, bloomFailed |-> r.x.bloomFailed,
                     screen |-> r.x.screen, diagnostics |-> r.x.diagnostics]
        /\ session' = [caught |-> session.caught \/ r.failed]
        /\ renderer' = IF r.failed
                       THEN [renderer EXCEPT !.postProcessor = FALSE,
                                             !.postProcessingEnabled = FALSE]
                       ELSE renderer
        /\ console' = r.x.out
        /\ last' = [op |-> "render", arg |-> 0]

\* sizes the window system reports; 0x0 is a minimised window
WindowSizes == {<<1600, 1200>>, <<800, 600>>, <<0, 0>>}

\* GLFW: framebuffer_size_callback -> TerrainRenderer::resize
\* Qt:   TerrainViewer::resizeGL, which a widget gets with a non-empty size
WindowResize(width, height) ==
    /\ Cardinality(gl.retiredFramebuffers) < 3 * MaxReallocations
    /\ IF renderer.frontEnd = "qt"
       THEN /\ width > 0 /\ height > 0
            /\ renderer' = [renderer EXCEPT !.width = width, !.height = height]
            /\ console' = "Viewport resized"
            /\ UNCHANGED <<pp, gl>>
       ELSE IF width <= 0 \/ height <= 0
       THEN /\ console' = "Ignoring invalid framebuffer size"
            /\ UNCHANGED <<renderer, pp, gl>>
       ELSE LET r == IF renderer.postProcessor
                     THEN resize(pp, gl, width, height, TRUE)
                     ELSE [pp |-> pp, gl |-> gl, out |-> NoOutput]
            IN  /\ renderer' = [renderer EXCEPT !.width = width, !.height = height]
                /\ pp' = r.pp
                /\ gl' = r.gl
                /\ console' = "Resized"
    /\ last' = [op |-> "windowResize", arg |-> <<width, height>>]
    /\ frame' = NoFrame
    /\ UNCHANGED <<lighting, blackTexture, session, mesh, noise>>

\* either program after its initialisation
InitViewport ==
    /\ last = [op |-> "initialize", arg |-> 0]
    /\ blackTexture = 0
    /\ frame = NoFrame
    /\ session = NewSession
    /\ mesh = ProgramMesh
    /\ noise = NoNoise
    /\ \E recycle \in BOOLEAN :
        \/ LET made == NewPostProcessor(InitialSize[1], InitialSize[2],
                                        [NewContext EXCEPT !.recycle = recycle], 3, TRUE)
           IN  /\ renderer = NewRenderer
               /\ lighting = setupLighting(NewLightingConfig).cfg
               /\ console = "TerrainRenderer initialized successfully!"
               /\ pp = [made.pp EXCEPT !.config = RendererConfig]
               /\ gl = made.gl
        \/ LET made == NewPostProcessor(ViewerSize[1], ViewerSize[2],
                                        [NewContext EXCEPT !.recycle = recycle], 3, TRUE)
           IN  /\ renderer = NewViewer
               /\ lighting = viewerSetupLighting(NewLightingConfig).cfg
               /\ console = "TerrainViewer initialized!"
               /\ pp = [made.pp EXCEPT !.config = ViewerConfig]
               /\ gl = made.gl

\* frames and window resizes in either front-end
NextViewport ==
    \/ \E deltaTime \in FrameTimes, fault \in {NoFault, CompositeFault} :
          Render(deltaTime, fault)
    \/ \E deltaTime \in FrameTimes, fault \in {NoFault, CompositeFault} :
          PaintGL(deltaTime, fault)
    \/ \E size \in WindowSizes : WindowResize(size[1], size[2])
    \/ \E b \in BOOLEAN : GuiSetPostProcessingEnabled(b)
    \/ ToggleBloom

SpecViewport == InitViewport /\ [][NextViewport]_vars

(***************************************************************************)
(* Start-up: TerrainGenerator::generateTerrainMesh and the initialisation  *)
(* of the two orchestrators around it.  setupTerrain passes               *)
(* ProgramMeshParameters; the actions take the parameters as inputs.       *)
(***************************************************************************)
\* width and depth in thousandths
MeshDimensions == {-1000, 0, 80000}
\* segment counts are unsigned; 26755 * 26755 * 6 is the first square grid
\* whose index count does not fit an unsigned int
MeshSegments == {0, 1, 2, 100, 26755}

MsgRendererFailed == "Failed to initialize terrain renderer"
MsgViewerInitFailed == "Error initializing OpenGL resources"

\* TerrainRenderer / TerrainViewer after their constructors
Constructed(frontEnd) ==
    [(IF frontEnd = "qt" THEN NewViewer ELSE NewRenderer)
        EXCEPT !.initialized = FALSE, !.terrainMesh = FALSE, !.postProcessor = FALSE]

\* a direct call of the generator
GenerateTerrainMesh(width, depth, widthSegments, depthSegments) ==
    LET m == generateTerrainMesh(width, depth, widthSegments, depthSegments)
    IN  /\ mesh' = m
        /\ console' = m.out[Len(m.out)]
        /\ last' = [op |-> "generateTerrainMesh",
                    arg |-> <<width, depth, widthSegments, depthSegments>>]
        /\ frame' = NoFrame
        /\ UNCHANGED <<lighting, pp, renderer, gl, blackTexture, session, noise>>

\* TerrainRenderer::setupLighting with its HDR part: hdr is whether
\* HDRLoader::loadHDREnvironment returned textures that are valid
rendererLighting(S, hdr) ==
    IF hdr
    THEN [setupLighting(S) EXCEPT !.cfg.ibl.enabled = TRUE, !.cfg.ibl.intensity = 800]
    ELSE setupLighting(S)

\* TerrainViewer::initializeGL: setupLighting reads m_iblTextures.isValid()
\* of the member as constructed, the environment is loaded after it and
\* m_lighting is not assigned again
viewerLighting(S, hdr) == viewerSetupLighting(S)

\* TerrainRenderer::initialize under main, TerrainViewer::initializeGL under Qt:
\* setupTerrain throws when the mesh is null.  main then terminates; Qt goes on
\* to call paintGL.
Initialize(width, depth, widthSegments, depthSegments) ==
    LET m == generateTerrainMesh(width, depth, widthSegments, depthSegments)
        qt == renderer.frontEnd = "qt"
        size == IF qt THEN ViewerSize ELSE InitialSize
        made == NewPostProcessor(size[1], size[2], gl, 3, TRUE)
    IN  /\ ~renderer.initialized /\ renderer.running
        /\ mesh' = m
        /\ \E hdr \in BOOLEAN :
              /\ last' = [op |-> "initialize",
                          arg |-> <<width, depth, widthSegments, depthSegments>>,
                          hdr |-> hdr]
              /\ IF m.valid
                 THEN lighting' = IF qt THEN viewerLighting(Fresh, hdr).cfg
                                  ELSE rendererLighting(Fresh, hdr).cfg
                 ELSE UNCHANGED lighting
        /\ frame' = NoFrame
        /\ UNCHANGED <<blackTexture, session, noise>>
        /\ IF m.valid
           THEN /\ renderer' = [renderer EXCEPT !.initialized = TRUE, !.terrainMesh = TRUE,
                                                !.postProcessor = TRUE]
                /\ pp' = [made.pp EXCEPT !.config = IF qt THEN ViewerConfig
                                                   ELSE RendererConfig]
                /\ gl' = made.gl
                /\ console' = IF qt THEN "TerrainViewer initialized!"
                              ELSE "TerrainRenderer initialized successfully!"
           ELSE /\ renderer' = IF qt THEN [renderer EXCEPT !.initialized = TRUE]
                               ELSE [renderer EXCEPT !.running = FALSE]
                /\ console' = IF qt THEN MsgViewerInitFailed ELSE MsgRendererFailed
                /\ UNCHANGED <<pp, gl>>

\* grids of up to MaxGridSegments segments a side
GridSegments == 1..MaxGridSegments

\* a client about to ask for a grid
InitGrid ==
    /\ \E frontEnd \in {"glfw", "qt"} : renderer = Constructed(frontEnd)
    /\ lighting = NewLightingConfig.cfg
    /\ console = ""
    /\ \E widthSegments \in GridSegments, depthSegments \in GridSegments :
          last = [op |-> "grid", arg |-> <<widthSegments, depthSegments>>]
    /\ pp = NewPostProcessorMembers(0, 0)
    /\ gl = NewContext
    /\ blackTexture = 0
    /\ frame = NoFrame
    /\ session = NewSession
    /\ mesh = [valid |-> FALSE, vertices |-> Zero, indices |-> Zero, out |-> <<>>]
    /\ noise = NoNoise

GenerateGrid ==
    LET m == generateGrid(ProgramMeshParameters[1], ProgramMeshParameters[2],
                          last.arg[1], last.arg[2])
    IN  /\ last.op = "grid"
        /\ mesh' = m
        /\ console' = m.out[Len(m.out)]
        /\ last' = [op |-> "generateGrid", arg |-> last.arg]
        /\ frame' = NoFrame
        /\ UNCHANGED <<lighting, pp, renderer, gl, blackTexture, session, noise>>

NextGrid == GenerateGrid

SpecGrid == InitGrid /\ [][NextGrid]_vars

InitMesh ==
    /\ \E frontEnd \in {"glfw", "qt"} : renderer = Constructed(frontEnd)
    /\ lighting = NewLightingConfig.cfg
    /\ console = ""
    /\ last = [op |-> "construct", arg |-> 0]
    /\ pp = NewPostProcessorMembers(0, 0)
    /\ \E recycle \in BOOLEAN : gl = [NewContext EXCEPT !.recycle = recycle]
    /\ blackTexture = 0
    /\ frame = NoFrame
    /\ session = NewSession
    /\ mesh = [valid |-> FALSE, vertices |-> Zero, indices |-> Zero, out |-> <<>>]
    /\ noise = NoNoise

NextMesh ==
    \/ \E width \in MeshDimensions, depth \in MeshDimensions,
          widthSegments \in MeshSegments, depthSegments \in MeshSegments :
          GenerateTerrainMesh(width, depth, widthSegments, depthSegments)
    \/ \E width \in MeshDimensions, depth \in MeshDimensions,
          widthSegments \in MeshSegments, depthSegments \in MeshSegments :
          Initialize(width, depth, widthSegments, depthSegments)
    \/ \E deltaTime \in FrameTimes : Render(deltaTime, NoFault)
    \/ \E deltaTime \in FrameTimes : PaintGL(deltaTime, NoFault)

SpecMesh == InitMesh /\ [][NextMesh]_vars

(***************************************************************************)
(* main.cpp : loadConfiguration.  settings.txt is a sequence of lines; a    *)
(* line is [kind |-> "section", name], [kind |-> "pair", key, value], or    *)
(* [kind |-> "skip"] for an empty line, a comment, a line without '=' and   *)
(* a '[' line without ']'.                                                  *)
(***************************************************************************)
\* variant: a value that does not parse yields 0 and nothing is thrown
stof_NoThrow(value) ==
    CASE value = "1" -> [ok |-> TRUE, v |-> 1000]
      [] value = "0.5" -> [ok |-> TRUE, v |-> 500]
      [] value = "2x" -> [ok |-> TRUE, v |-> 2000]
      [] OTHER -> [ok |-> TRUE, v |-> 0]

\* std::stof on the values used here, in thousandths; ok is FALSE when it throws
stof(value) ==
    CASE value = "1" -> [ok |-> TRUE, v |-> 1000]
      [] value = "0.5" -> [ok |-> TRUE, v |-> 500]
      [] value = "2x" -> [ok |-> TRUE, v |-> 2000]
      [] OTHER -> [ok |-> FALSE, v |-> 0]

\* std::stoi on the same values
stoi(value) ==
    CASE value = "1" -> [ok |-> TRUE, v |-> 1]
      [] value = "0.5" -> [ok |-> TRUE, v |-> 0]
      [] value = "2x" -> [ok |-> TRUE, v |-> 2]
      [] OTHER -> [ok |-> FALSE, v |-> 0]

MsgConfigLoaded == "Configuration loaded successfully!"

\* the body of the while loop for one line, with the locals
\* S = [section, lighting, ppConfig, enabled, warnings]: currentSection, the
\* LightingConfig written through the reference, the local ppConfig, the
\* renderer's m_postProcessingEnabled, and the warnings printed by the catch
configLine(S, line) ==
    IF line.kind = "skip" THEN S
    ELSE IF line.kind = "section" THEN [S EXCEPT !.section = line.name]
    ELSE LET key == line.key
             f == stof(line.value)
             n == stoi(line.value)
             b == line.value = "true" \/ line.value = "1"
             caught == [S EXCEPT !.warnings = @ + 1]
         IN  IF S.section = "Lighting"
             THEN
                 CASE key = "sun_intensity" ->
                       IF f.ok THEN [S EXCEPT !.lighting.directionalLight.intensity = f.v] ELSE caught
                   [] key = "sun_color_r" ->
                       IF f.ok THEN [S EXCEPT !.lighting.directionalLight.color[1] = f.v * 1000] ELSE caught
                   [] key = "sun_color_g" ->
                       IF f.ok THEN [S EXCEPT !.lighting.directionalLight.color[2] = f.v * 1000] ELSE caught
                   [] key = "sun_color_b" ->
                       IF f.ok THEN [S EXCEPT !.lighting.directionalLight.color[3] = f.v * 1000] ELSE caught
                   [] key = "sun_direction_x" ->
                       IF f.ok THEN [S EXCEPT !.lighting.directionalLight.direction[2] = f.v] ELSE caught
                   [] key = "sun_direction_y" ->
                       IF f.ok THEN [S EXCEPT !.lighting.directionalLight.direction[3] = f.v] ELSE caught
                   [] key = "sun_direction_z" ->
                       IF f.ok THEN [S EXCEPT !.lighting.directionalLight.direction[4] = f.v] ELSE caught
                   [] key = "fog_density" ->
                       IF f.ok THEN [S EXCEPT !.lighting.atmosphere.fogDensity = f.v] ELSE caught
                   [] key = "fog_height" ->
                       IF f.ok THEN [S EXCEPT !.lighting.atmosphere.fogHeightFalloff = f.v] ELSE caught
                   [] key = "fog_color_r" ->
                       IF f.ok THEN [S EXCEPT !.lighting.atmosphere.fogColor[1] = f.v * 1000] ELSE caught
                   [] key = "fog_color_g" ->
                       IF f.ok THEN [S EXCEPT !.lighting.atmosphere.fogColor[2] = f.v * 1000] ELSE caught
                   [] key = "fog_color_b" ->
                       IF f.ok THEN [S EXCEPT !.lighting.atmosphere.fogColor[3] = f.v * 1000] ELSE caught
                   [] OTHER -> S
             ELSE IF S.section = "Post-Processing"
             THEN
                 CASE key = "enable_post_processing" -> [S EXCEPT !.enabled = b]
                   [] key = "enable_bloom" -> [S EXCEPT !.ppConfig.enableBloom = b]
                   [] key = "bloom_threshold" ->
                       IF f.ok THEN [S EXCEPT !.ppConfig.bloomThreshold = f.v] ELSE caught
                   [] key = "bloom_intensity" ->
                       IF f.ok THEN [S EXCEPT !.ppConfig.bloomIntensity = f.v] ELSE caught
                   [] key = "bloom_iterations" ->
                       IF n.ok THEN [S EXCEPT !.ppConfig.bloomBlurPasses = n.v] ELSE caught
                   [] key = "enable_dof" -> [S EXCEPT !.ppConfig.enableDOF = b]
                   [] key = "focus_distance" ->
                       IF f.ok THEN [S EXCEPT !.ppConfig.focusDistance = f.v] ELSE caught
                   [] key = "dof_strength" ->
                       IF f.ok THEN [S EXCEPT !.ppConfig.bokehRadius = f.v] ELSE caught
                   [] key = "enable_chromatic_aberration" -> [S EXCEPT !.ppConfig.enableChromaticAberration = b]
                   [] key = "chromatic_aberration_strength" ->
                       IF f.ok THEN [S EXCEPT !.ppConfig.aberrationStrength = f.v] ELSE caught
                   [] key = "exposure" ->
                       IF f.ok THEN [S EXCEPT !.ppConfig.exposure = f.v] ELSE caught
                   [] OTHER -> S
             ELSE S

\* the while loop from line i on
RECURSIVE configLines(_, _, _)
configLines(S, lines, i) ==
    IF i > Len(lines) THEN S
    ELSE configLines(configLine(S, lines[i]), lines, i + 1)

\* loadConfiguration with settings.txt open and g_terrainRenderer set
loadConfiguration(lines, R, P, lightingConfig) ==
    LET ppConfig == IF R.postProcessor THEN P.config ELSE Config
        S == configLines([section |-> "", lighting |-> lightingConfig,
                          ppConfig |-> ppConfig,
                          enabled |-> R.postProcessingEnabled, warnings |-> 0],
                         lines, 1)
    IN  [renderer |-> [R EXCEPT !.postProcessingEnabled = S.enabled],
         pp |-> IF R.postProcessor THEN [P EXCEPT !.config = S.ppConfig] ELSE P,
         lighting |-> S.lighting, warnings |-> S.warnings, out |-> MsgConfigLoaded]

(***************************************************************************)
(* Start-up with a settings.txt of up to MaxLines lines                    *)
(***************************************************************************)
SettingsSections == {"Lighting", "Post-Processing", "Other"}
\* gamma is a field of the Config record that no key of the file sets
SettingsKeys ==
    {"sun_intensity", "bloom_intensity", "bloom_iterations", "enable_post_processing",
     "gamma"}
SettingsValues == {"1", "abc"}
SettingsLines ==
    {[kind |-> "skip"]}
        \cup {[kind |-> "section", name |-> n] : n \in SettingsSections}
        \cup {[kind |-> "pair", key |-> k, value |-> v] :
                 k \in SettingsKeys, v \in SettingsValues}
SettingsFiles == UNION {[1..n -> SettingsLines] : n \in 0..MaxLines}

\* main after g_terrainRenderer->initialize(), about to call loadConfiguration
InitSettings ==
    /\ lighting = setupLighting(NewLightingConfig).cfg
    /\ console = "Terrain renderer initialized successfully!"
    /\ \E file \in SettingsFiles : last = [op |-> "open", arg |-> file]
    /\ LET made == NewPostProcessor(InitialSize[1], InitialSize[2], NewContext, 3, TRUE)
       IN  /\ pp = [made.pp EXCEPT !.config = RendererConfig]
           /\ gl = made.gl
    /\ renderer = NewRenderer
    /\ blackTexture = 0
    /\ frame = NoFrame
    /\ session = NewSession
    /\ mesh = ProgramMesh
    /\ noise = NoNoise

LoadSettings ==
    LET r == loadConfiguration(last.arg, renderer, pp, lighting)
    IN  /\ last.op = "open"
        /\ renderer' = r.renderer
        /\ pp' = r.pp
        /\ lighting' = r.lighting
        /\ console' = r.out
        /\ last' = [op |-> "loadSettings", arg |-> last.arg, warnings |-> r.warnings]
        /\ frame' = NoFrame
        /\ UNCHANGED <<gl, blackTexture, session, mesh, noise>>

NextSettings == LoadSettings

SpecSettings == InitSettings /\ [][NextSettings]_vars

(***************************************************************************)
(* Clients of NoiseGenerator: two objects, constructed, reseeded and       *)
(* queried in any order                                                    *)
(***************************************************************************)
Engines == 1..2
\* seeds passed by the caller; 0 asks for the clock
Seeds == {0, 1, 42}
\* readings of the clock, looked at only for seed 0
ClockSeeds == {42, 977}
Clocks(seed) == IF seed = 0 THEN ClockSeeds ELSE {0}
\* points in halves: (-1.5, 0.5), (255.5, 2.5) and (-1.5, 0.5, 255.5)
Points2D == {<<-3, 1>>, <<511, 5>>}
Points3D == {<<-3, 1, 511>>}
Octaves == {6}
\* scale in hundredths with heightScale, as setupTerrain passes them
TerrainScales == {<<8, 15>>}

NoiseCall(op, arg, N) ==
    /\ noise' = N
    /\ last' = [op |-> op, arg |-> arg]
    /\ UNCHANGED <<lighting, console, pp, renderer, gl, blackTexture, frame, session, mesh>>

Store(e, seed, E) ==
    [noise EXCEPT !.engines[e] = [constructed |-> TRUE, seed |-> seed,
                                  permutation |-> E.permutation, rng |-> E.rng]]

\* NoiseGenerator noiseGen(seed) in slot e
Construct(e, seed, clock) ==
    /\ ~noise.engines[e].constructed
    /\ NoiseCall("construct", <<e, seed>>,
                 Store(e, seed, NewNoiseGenerator(noise.stdlib, seed, clock)))

SetSeed(e, seed, clock) ==
    /\ noise.engines[e].constructed
    /\ NoiseCall("setSeed", <<e, seed>>,
                 Store(e, seed, setSeed(noise.stdlib, noise.engines[e], seed, clock)))

\* the queries are const and leave m_permutation and m_rng alone
Query(e, op, arg, value) ==
    /\ noise.engines[e].constructed
    /\ NoiseCall(op, <<e>> \o arg, [noise EXCEPT !.value = value])

Perlin2D(e, x, y) ==
    Query(e, "perlin2D", <<x, y>>, perlin2D(noise.engines[e].permutation, x, y))

Perlin3D(e, x, y, z) ==
    Query(e, "perlin3D", <<x, y, z>>, perlin3D(noise.engines[e].permutation, x, y, z))

Fbm2D(e, x, y, octaves) ==
    Query(e, "fbm2D", <<x, y, octaves>>,
          fbm2D(noise.engines[e].permutation, x, y, octaves, 5, 20))

GenerateTerrainHeight(e, x, z, scale, heightScale) ==
    Query(e, "generateTerrainHeight", <<x, z, scale, heightScale>>,
          generateTerrainHeight(noise.engines[e].permutation, x, z, scale, heightScale))

InitNoise ==
    /\ lighting = NewLightingConfig.cfg
    /\ console = ""
    /\ last = [op |-> "start", arg |-> 0]
    /\ pp = NewPostProcessorMembers(0, 0)
    /\ renderer = Constructed("glfw")
    /\ gl = NewContext
    /\ blackTexture = 0
    /\ frame = NoFrame
    /\ session = NewSession
    /\ mesh = [valid |-> FALSE, vertices |-> Zero, indices |-> Zero, out |-> <<>>]
    /\ \E lib \in Libraries : noise = [NoNoise EXCEPT !.stdlib = lib]

NextNoise ==
    \/ \E e \in Engines, seed \in Seeds : \E clock \in Clocks(seed) :
          Construct(e, seed, clock)
    \/ \E e \in Engines, seed \in Seeds : \E clock \in Clocks(seed) :
          SetSeed(e, seed, clock)
    \/ \E e \in Engines, p \in Points2D : Perlin2D(e, p[1], p[2])
    \/ \E e \in Engines, p \in Points3D : Perlin3D(e, p[1], p[2], p[3])
    \/ \E e \in Engines, p \in Points2D, octaves \in Octaves : Fbm2D(e, p[1], p[2], octaves)
    \/ \E e \in Engines, p \in Points2D, s \in TerrainScales :
          GenerateTerrainHeight(e, p[1], p[2], s[1], s[2])

SpecNoise == InitNoise /\ [][NextNoise]_vars

(***************************************************************************)
(* Queries of one seeded NoiseGenerator over a wider set of arguments      *)
(***************************************************************************)
\* coordinates in halves: -256.5, -1.5, 0, 0.5, 255.5
SmallCoordinates == {-513, -3, 0, 1, 511}
\* 2^127, the largest power of two a float holds
LargestPower == Huge + 127
QueryPoints2D == (SmallCoordinates \X SmallCoordinates) \cup {<<LargestPower, LargestPower>>}
QueryPoints3D ==
    ({-513, 511} \X {-3, 511} \X {-513, 1})
        \cup {<<LargestPower, LargestPower, LargestPower>>}
QueryOctaves == {1, 6}
\* scale in hundredths with heightScale: (1.0, 10), setupTerrain's (0.08, 15), (0.01, 1)
QueryScales == {<<100, 10>>, <<8, 15>>, <<1, 1>>}

InitQueries ==
    /\ lighting = NewLightingConfig.cfg
    /\ console = ""
    /\ last = [op |-> "construct", arg |-> 0]
    /\ pp = NewPostProcessorMembers(0, 0)
    /\ renderer = Constructed("glfw")
    /\ gl = NewContext
    /\ blackTexture = 0
    /\ frame = NoFrame
    /\ session = NewSession
    /\ mesh = [valid |-> FALSE, vertices |-> Zero, indices |-> Zero, out |-> <<>>]
    /\ \E lib \in Libraries, seed \in Seeds \ {0} :
          LET E == NewNoiseGenerator(lib, seed, 0)
          IN  noise = [stdlib |-> lib, value |-> 0,
                       engines |-> [e \in Engines |->
                           IF e = 1
                           THEN [constructed |-> TRUE, seed |-> seed,
                                 permutation |-> E.permutation, rng |-> E.rng]
                           ELSE NoEngine]]

NextQueries ==
    \/ \E e \in Engines, p \in QueryPoints2D : Perlin2D(e, p[1], p[2])
    \/ \E e \in Engines, p \in QueryPoints3D : Perlin3D(e, p[1], p[2], p[3])
    \/ \E e \in Engines, p \in QueryPoints2D, octaves \in QueryOctaves :
          Fbm2D(e, p[1], p[2], octaves)
    \/ \E e \in Engines, p \in QueryPoints2D, s \in QueryScales :
          GenerateTerrainHeight(e, p[1], p[2], s[1], s[2])

SpecQueries == InitQueries /\ [][NextQueries]_vars

\* the key events of the window system: an unknown key, the toggle keys, a
\* movement key and the keys that key_callback handles itself
KeyEvents ==
    {GLFW_KEY_UNKNOWN, GLFW_KEY_1, GLFW_KEY_2, GLFW_KEY_W, GLFW_KEY_R, GLFW_KEY_ESCAPE}
        \X {GLFW_RELEASE, GLFW_PRESS, GLFW_REPEAT}

\* key_callback passing an event on to processKeyboard
ProcessKeyboard(key, action) ==
    /\ delivered(key, action)
    /\ \E stray \in BOOLEAN :
          LET r == processKeyboard(renderer, pp, key, action, stray)
          IN  /\ stray => (r.written \ (0..(KeysPressedSize - 1)) # {})
              /\ renderer' = r.renderer
              /\ pp' = r.pp
              /\ console' = r.out
              /\ last' = [op |-> "processKeyboard", arg |-> <<key, action>>,
                          written |-> r.written]
    /\ frame' = NoFrame
    /\ UNCHANGED <<lighting, gl, blackTexture, session, mesh, noise>>

NextKeys == \E e \in KeyEvents : ProcessKeyboard(e[1], e[2])

SpecKeys == InitRenderer /\ [][NextKeys]_vars

\* the frame loop with the post-processing controls
NextPost ==
    \/ \E deltaTime \in FrameTimes, fault \in Faults : Render(deltaTime, fault)
    \/ ToggleBloom
    \/ \E b \in BOOLEAN : GuiSetPostProcessingEnabled(b)
    \/ \E n \in 1..MaxBlurPasses : GuiSetBlurPasses(n)
    \/ \E enabled \in BOOLEAN, bloom \in BOOLEAN, iterations \in FileIterations :
          LoadConfiguration(enabled, bloom, iterations)

SpecPost == InitRenderer /\ [][NextPost]_vars

(***************************************************************************)
(* Properties of the LightingConfig                                        *)
(***************************************************************************)
PresetOps == {"setupDefaultLights", "setupSunsetLighting", "setupNightLighting"}

\* C1: after any sequence of addPointLight, clearPointLights and preset
\* applications, starting from a freshly constructed LightingConfig, the
\* number of point lights is at most 8.
C1_PointLightCap == Len(lighting.pointLights) <= 8

C1_Witness ==
    /\ last.op = "addPointLight"
    /\ Len(lighting.pointLights) = 8
    /\ lighting.pointLights[8] = UserLight

\* C2: addPointLight on a LightingConfig that already holds 8 point lights
\* leaves the whole LightingConfig as it was and emits the warning; with fewer
\* than 8 the light is appended at the end, the count grows by one, and nothing
\* else changes.
C2_AddPointLight ==
    [][ last'.op = "addPointLight" =>
          IF Len(lighting.pointLights) >= 8
          THEN /\ lighting' = lighting
               /\ console' = WarnMaxLights
          ELSE /\ lighting'.pointLights = Append(lighting.pointLights, last'.arg)
               /\ Len(lighting'.pointLights) = Len(lighting.pointLights) + 1
               /\ lighting' = [lighting EXCEPT !.pointLights = lighting'.pointLights]
               /\ console' # WarnMaxLights ]_vars

C2_Witness ==
    /\ last.op = "addPointLight"
    /\ console = WarnMaxLights
    /\ Len(lighting.pointLights) = 8

\* C3: with animateTimeOfDay enabled, every updateTimeOfDay(deltaTime) sets
\* timeOfDay to (previous timeOfDay + deltaTime*daySpeed) mod 1.0, so it is in
\* [0,1) after every update.
C3_TimeOfDayWraps ==
    [][ (last'.op = "updateTimeOfDay" /\ lighting.timeOfDay.animateTimeOfDay) =>
          /\ lighting'.timeOfDay.timeOfDay =
                (lighting.timeOfDay.timeOfDay
                    + last'.arg * lighting.timeOfDay.daySpeed) % TimeUnit
          /\ lighting'.timeOfDay.timeOfDay >= 0
          /\ lighting'.timeOfDay.timeOfDay < TimeUnit ]_vars

\* C4: with animateTimeOfDay true, after each updateTimeOfDay the directional
\* light's direction, color and intensity and the fog color are those computed
\* from the new timeOfDay, whatever was written to them before; with
\* animateTimeOfDay false, updateTimeOfDay changes nothing in the
\* LightingConfig.
C4_DerivedFromTime ==
    [][ last'.op = "updateTimeOfDay" =>
          IF lighting.timeOfDay.animateTimeOfDay
          THEN LET t == lighting'.timeOfDay.timeOfDay
               IN  /\ lighting'.directionalLight.direction = getSunDirection(t)
                   /\ lighting'.directionalLight.color = getSunColor(t)
                   /\ lighting'.directionalLight.intensity = getSunIntensity(t)
                   /\ lighting'.atmosphere.fogColor = fogColorAt(t)
          ELSE lighting' = lighting ]_vars

C4_Witness ==
    /\ last.op = "updateTimeOfDay"
    /\ lighting.timeOfDay.animateTimeOfDay
    /\ lighting.timeOfDay.timeOfDay = 199
    /\ lighting.directionalLight.color = NightSunColor
    /\ lighting.atmosphere.fogColor = fogMix(204)

\* the bands as the claim states them
C5_Band(t) ==
    IF (0 <= t /\ t < 200) \/ (800 < t /\ t <= 1000) THEN "night"
    ELSE IF (200 <= t /\ t < 300) \/ (700 < t /\ t <= 800) THEN "dawnDusk"
    ELSE "day"

C5_BandColor(band) ==
    IF band = "night" THEN <<100000, 100000, 300000>>
    ELSE IF band = "dawnDusk" THEN <<1000000, 600000, 300000>>
    ELSE <<1000000, 950000, 800000>>

C5_BandIntensity(band) ==
    IF band = "night" THEN 100 ELSE IF band = "dawnDusk" THEN 2000 ELSE 4000

\* C5: the sun color and intensity are a three-band step function of
\* timeOfDay: night on [0,0.2) and (0.8,1], dawn/dusk on [0.2,0.3) and
\* (0.7,0.8], day on [0.3,0.7]; 0.2 and 0.8 are dawn/dusk, 0.3 and 0.7 are day;
\* color and intensity always come from the same band, also in the values an
\* update stores in the directional light.
C5_Bands ==
    LET t == lighting.timeOfDay.timeOfDay
    IN  (0 <= t /\ t <= 1000) =>
          /\ getSunColor(t) = C5_BandColor(C5_Band(t))
          /\ getSunIntensity(t) = C5_BandIntensity(C5_Band(t))
          /\ (last.op = "updateTimeOfDay" /\ lighting.timeOfDay.animateTimeOfDay) =>
                /\ lighting.directionalLight.color = C5_BandColor(C5_Band(t))
                /\ lighting.directionalLight.intensity = C5_BandIntensity(C5_Band(t))

C5_Witness ==
    /\ last.op = "updateTimeOfDay"
    /\ lighting.timeOfDay.animateTimeOfDay
    /\ lighting.timeOfDay.timeOfDay = 800
    /\ lighting.directionalLight.color = DawnDuskSunColor
    /\ lighting.directionalLight.intensity = DawnDuskSunIntensity

\* what each preset yields on a freshly constructed LightingConfig
C6_PresetLights(op) ==
    IF op = "setupDefaultLights" THEN DefaultLights
    ELSE IF op = "setupSunsetLighting" THEN SunsetLights
    ELSE NightLights

C6_PresetSun(op) ==
    IF op = "setupDefaultLights" THEN DefaultSun
    ELSE IF op = "setupSunsetLighting" THEN SunsetSun
    ELSE [DefaultSun EXCEPT !.enabled = FALSE]

\* C6 as stated: after any of the three presets the point lights and the
\* directional light's direction, color, intensity and enabled flag are
\* determined by the preset alone, whatever the LightingConfig was before.
C6_PresetAlone ==
    last.op \in PresetOps =>
        /\ lighting.pointLights = C6_PresetLights(last.op)
        /\ lighting.directionalLight = C6_PresetSun(last.op)

\* C6 as amended: after default or sunset the point lights and all four
\* directional parameters are the preset's, with the light enabled; after
\* night the point lights are the preset's and the light is disabled, while
\* its direction, color and intensity keep the values they had before.
C6_PresetAmended ==
    [][ last'.op \in PresetOps =>
          /\ lighting'.pointLights = C6_PresetLights(last'.op)
          /\ IF last'.op = "setupNightLighting"
             THEN lighting'.directionalLight =
                      [lighting.directionalLight EXCEPT !.enabled = FALSE]
             ELSE /\ lighting'.directionalLight = C6_PresetSun(last'.op)
                  /\ lighting'.directionalLight.enabled ]_vars

C6_Witness ==
    /\ last.op = "setupNightLighting"
    /\ ~lighting.directionalLight.enabled
    /\ lighting.directionalLight.direction = SunsetSun.direction
    /\ lighting.pointLights = NightLights

(***************************************************************************)
(* The frame: C7 .. C10                                                    *)
(***************************************************************************)
\* positions of the passes of one kind in a frame's log
FrameIndices(log, op) == {i \in DOMAIN log : log[i].op = op}

\* a frame that went through beginFrame / endFrame without an exception
\* leaving endFrame
PostProcessedFrame == last.op = "render" /\ frame.path = "post"

\* what endFrame tests before it calls applyBloom
BloomAvailable == pp.config.enableBloom /\ pp.brightPassShader /\ pp.blurShader

C7_Rank(op) ==
    CASE op = "beginFrame" -> 0
      [] op = "scene"      -> 1
      [] op = "brightPass" -> 2
      [] op = "blur"       -> 3
      [] op = "composite"  -> 4
      [] op = "endFrame"   -> 5

\* C7: in every post-processed frame the scene is drawn once, after
\* beginFrame and before endFrame returns; the bright-pass extraction comes
\* before every blur pass and every blur pass before the final composite;
\* the final composite is drawn at most once, as the last pass of the frame,
\* into the default framebuffer.
C7_FrameOrder ==
    PostProcessedFrame =>
        LET log == frame.log
        IN  /\ \A i, j \in DOMAIN log :
                  i < j => C7_Rank(log[i].op) <= C7_Rank(log[j].op)
            /\ FrameIndices(log, "beginFrame") = {1}
            /\ FrameIndices(log, "scene") = {2}
            /\ FrameIndices(log, "endFrame") = {Len(log)}
            /\ Cardinality(FrameIndices(log, "brightPass")) <= 1
            /\ FrameIndices(log, "blur") # {} => FrameIndices(log, "brightPass") # {}
            /\ Cardinality(FrameIndices(log, "composite")) <= 1
            /\ \A i \in FrameIndices(log, "composite") :
                  /\ i = Len(log) - 1
                  /\ log[i].fbo = 0

C7_Witness ==
    /\ PostProcessedFrame
    /\ FrameIndices(frame.log, "brightPass") = {3}
    /\ FrameIndices(frame.log, "blur") = {4, 5}
    /\ FrameIndices(frame.log, "composite") = {6}
    /\ frame.log[3].fbo # 0
    /\ frame.log[6].fbo = 0

\* number of blur passes drawn before position k
C8_BlurIndex(log, k) == Cardinality({j \in FrameIndices(log, "blur") : j < k})

\* C8: in every frame whose endFrame was entered, applyBloom is called iff
\* enableBloom is set and the bright-pass and blur programs exist; no bloom
\* pass is drawn otherwise; when applyBloom completes with
\* bloomBlurPasses = N, one bright pass and exactly max(N, 0) blur passes
\* were drawn, and the i-th blur pass (from 0) is horizontal iff i is even.
C8_BloomPasses ==
    (last.op = "render" /\ frame.path \in {"post", "fallback"}) =>
        LET log == frame.log
            N == pp.config.bloomBlurPasses
        IN  /\ frame.bloomStarted <=> BloomAvailable
            /\ ~BloomAvailable =>
                  FrameIndices(log, "brightPass") \cup FrameIndices(log, "blur") = {}
            /\ (BloomAvailable /\ ~frame.bloomFailed) =>
                  /\ Cardinality(FrameIndices(log, "brightPass")) = 1
                  /\ Cardinality(FrameIndices(log, "blur")) = (IF N <= 0 THEN 0 ELSE N)
                  /\ \A k \in FrameIndices(log, "blur") :
                        log[k].horizontal <=> (C8_BlurIndex(log, k) % 2 = 0)

C8_Witness ==
    /\ PostProcessedFrame
    /\ BloomAvailable
    /\ ~frame.bloomFailed
    /\ pp.config.bloomBlurPasses = 5
    /\ Cardinality(FrameIndices(frame.log, "blur")) = 5
    /\ frame.log[4].horizontal
    /\ ~frame.log[5].horizontal

\* the texture attached to a ping-pong framebuffer
C9_TextureOf(fbo) ==
    pp.pingPongTexture[CHOOSE i \in 0..1 : pp.pingPongFBO[i] = fbo]

\* the last bloom pass drawn in a frame
C9_LastBloomPass(log) ==
    LET passes == FrameIndices(log, "brightPass") \cup FrameIndices(log, "blur")
    IN  CHOOSE k \in passes : \A j \in passes : j <= k

\* C9: when bloom ran to completion in a frame, the texture bound to unit 2
\* of the final composite is the ping-pong texture written last in that
\* frame: the bright-pass output when N = 0, otherwise the destination of
\* the N-th blur pass.
C9_BloomInputIsLastWritten ==
    (PostProcessedFrame /\ BloomAvailable /\ ~frame.bloomFailed) =>
        \A c \in FrameIndices(frame.log, "composite") :
            frame.log[c].tex2 = C9_TextureOf(frame.log[C9_LastBloomPass(frame.log)].fbo)

\* C10: in the final composite unit 2 is the black fallback texture in every
\* frame where enableBloom is false, a bloom program is missing or the bloom
\* pass failed, and a ping-pong texture only in frames where the bloom pass
\* ran.
C10_FallbackWhenNoBloom ==
    PostProcessedFrame =>
        \A c \in FrameIndices(frame.log, "composite") :
            IF BloomAvailable /\ ~frame.bloomFailed
            THEN frame.log[c].tex2 \in {pp.pingPongTexture[0], pp.pingPongTexture[1]}
            ELSE /\ blackTexture # 0
                 /\ frame.log[c].tex2 = blackTexture

(***************************************************************************)
(* Degradation: C11 .. C13                                                 *)
(***************************************************************************)
\* a resource that beginFrame or endFrame tests is missing or invalid
C11_Detected ==
    \/ pp.mainFBO = 0
    \/ pp.mainFBO \in gl.incomplete
    \/ pp.colorTexture = 0
    \/ ~pp.finalShader

\* C11: in every frame that went through beginFrame / endFrame with a missing
\* or invalid resource and nothing else going wrong, no exception leaves the
\* calls and at the end of the frame the default framebuffer holds the scene
\* drawn in that frame.
C11_DegradesToDirectPresent ==
    (/\ last.op = "render"
     /\ frame.path \in {"post", "fallback"}
     /\ frame.diagnostics = 0
     /\ C11_Detected) =>
        /\ frame.path = "post"
        /\ frame.screen = "scene"

\* C12: once render's handler has caught a post-processing error, every
\* later frame is rendered through the direct path, whatever UI actions, key
\* presses and configuration reloads happened in between.
C12_StaysDisabled ==
    [][ (session.caught /\ last'.op = "render") => frame'.path = "direct" ]_vars

\* C13: a frame that directly follows a frame in which a post-processing
\* failure was logged logs no further failure diagnostic.
C13_SingleDiagnostic ==
    [][ (/\ last.op = "render"
         /\ frame.diagnostics > 0
         /\ last'.op = "render") => frame'.diagnostics = 0 ]_vars

(***************************************************************************)
(* Resize and ownership: C14 .. C17                                        *)
(***************************************************************************)
\* C14: resize(w, h) with (w, h) equal to the current dimensions, or with
\* w <= 0 or h <= 0, changes neither the stored dimensions nor any
\* framebuffer or texture id and neither destroys nor allocates anything;
\* so the second of two consecutive resize(w, h) calls with the same
\* positive (w, h) reallocates nothing.
C14_ResizeNoOp ==
    [][ last'.op = "resize" =>
          /\ (\/ last'.arg = <<pp.width, pp.height>>
              \/ last'.arg[1] <= 0
              \/ last'.arg[2] <= 0) => (pp' = pp /\ gl' = gl)
          /\ (last.op = "resize" /\ last.arg = last'.arg) => (pp' = pp /\ gl' = gl)
      ]_vars

C14_Witness ==
    /\ last.op = "resize"
    /\ last.arg = <<800, 600>>
    /\ console = NoOutput
    /\ pp.width = 800 /\ pp.height = 600
    /\ pp.mainFBO \in gl.framebuffers

\* C15: after a reallocating resize the framebuffer binding is the one in
\* effect before the call and names the default framebuffer or a framebuffer
\* that exists, also when the main target was bound (between beginFrame and
\* endFrame).
C15_BindingRestored ==
    [][ (last'.op = "resize" /\ console' = MsgResized) =>
          /\ gl'.framebufferBinding = gl.framebufferBinding
          /\ gl'.framebufferBinding \in gl'.framebuffers \cup {0} ]_vars

\* the targets the compositor currently holds
C16_Targets ==
    [framebuffers |-> {pp.mainFBO, pp.pingPongFBO[0], pp.pingPongFBO[1]} \ {0},
     textures |-> {pp.colorTexture, pp.depthTexture,
                   pp.pingPongTexture[0], pp.pingPongTexture[1]} \ {0}]

\* C16: while the compositor exists exactly its 3 framebuffers and their 4
\* textures are live, next to the fallback black texture once it was made;
\* after the compositor is destroyed no framebuffer and no texture that it
\* created is live.
C16_ReleasesEverything ==
    IF renderer.postProcessor
    THEN /\ gl.framebuffers = C16_Targets.framebuffers
         /\ Cardinality(gl.framebuffers) = 3
         /\ gl.textures = C16_Targets.textures \cup ({blackTexture} \ {0})
         /\ Cardinality(C16_Targets.textures) = 4
    ELSE /\ gl.framebuffers = {}
         /\ gl.textures = {}

\* C17: whenever a post-processed frame is rendered, in either front-end and
\* after any window resizes, the compositor's target size is the
\* orchestrator's viewport size.
C17_TargetsMatchViewport ==
    (last.op = "render" /\ frame.path = "post") =>
        /\ pp.width = renderer.width
        /\ pp.height = renderer.height

(***************************************************************************)
(* The terrain mesh: C18, C19                                              *)
(***************************************************************************)
\* parameters <<width, depth, widthSegments, depthSegments>> that the
\* validation of generateDisplacedPlaneMesh is there to reject
C18_Invalid(arg) == arg[3] < 1 \/ arg[4] < 1 \/ arg[1] <= 0 \/ arg[2] <= 0

\* C18: generateTerrainMesh called with widthSegments < 1, depthSegments < 1,
\* width <= 0 or depth <= 0 returns a null mesh, logs, and has produced no
\* vertex and no index; an orchestrator whose initialisation receives a null
\* mesh runs neither its lighting setup nor its post-processing setup, and no
\* later frame draws the scene.
C18_RejectsAndHalts ==
    [][ /\ (last'.op \in {"generateTerrainMesh", "initialize"} /\ C18_Invalid(last'.arg)) =>
              /\ ~mesh'.valid
              /\ mesh'.vertices = Zero /\ mesh'.indices = Zero
              /\ mesh'.out # <<>> /\ mesh'.out[Len(mesh'.out)] = MsgMeshFailed
        /\ (last'.op = "initialize" /\ ~mesh'.valid) =>
              /\ lighting' = lighting /\ pp' = pp /\ gl' = gl
              /\ ~renderer'.postProcessor /\ ~renderer'.terrainMesh
        /\ (last'.op = "render" /\ ~renderer.terrainMesh) =>
              /\ FrameIndices(frame'.log, "scene") = {}
              /\ frame'.screen # "scene"
              /\ frame'.path # "post" ]_vars

\* a frame painted by the viewer after its initialisation was handed a null
\* mesh for rejected parameters
C18_Witness ==
    /\ last.op = "render"
    /\ renderer.frontEnd = "qt" /\ ~renderer.terrainMesh
    /\ ~mesh.valid /\ mesh.out[1] \in {MsgInvalidSegments, MsgInvalidDimensions}
    /\ frame.screen = "cleared"

\* parameters the validation accepts
C19_Valid(arg) == arg[3] >= 1 /\ arg[4] >= 1 /\ arg[1] > 0 /\ arg[2] > 0

\* C19: for widthSegments >= 1, depthSegments >= 1 and positive width and
\* depth the build succeeds with (widthSegments + 1) * (depthSegments + 1)
\* vertices and widthSegments * depthSegments * 6 indices.
C19_CountsExact ==
    (last.op \in {"generateTerrainMesh", "initialize"} /\ C19_Valid(last.arg)) =>
        /\ mesh.valid
        /\ mesh.vertices = times(last.arg[3] + 1, last.arg[4] + 1)
        /\ mesh.indices = scaled(times(last.arg[3], last.arg[4]), 6)

(***************************************************************************)
(* Noise: C20                                                              *)
(***************************************************************************)
C20_Queries == {"perlin2D", "perlin3D", "fbm2D", "generateTerrainHeight"}

\* the value query op returns for arguments arg = <<engine, ...>> on a table
C20_Value(m_permutation, op, arg) ==
    CASE op = "perlin2D" -> perlin2D(m_permutation, arg[2], arg[3])
      [] op = "perlin3D" -> perlin3D(m_permutation, arg[2], arg[3], arg[4])
      [] op = "fbm2D" -> fbm2D(m_permutation, arg[2], arg[3], arg[4], 5, 20)
      [] op = "generateTerrainHeight" ->
            generateTerrainHeight(m_permutation, arg[2], arg[3], arg[4], arg[5])

\* both objects exist and were last given the same non-zero seed
C20_SameSeed(engines) ==
    /\ engines[1].constructed /\ engines[2].constructed
    /\ engines[1].seed = engines[2].seed /\ engines[1].seed # 0

\* C20: two NoiseGenerator objects last given the same non-zero seed hold the
\* same permutation table and return the same value for the same query;
\* after construction or setSeed with a non-zero seed s the table is the one a
\* fresh NoiseGenerator(s) holds, whatever the object was seeded with before;
\* and no perlin2D, perlin3D, fbm2D or generateTerrainHeight call changes a
\* table.
C20_DeterministicInSeed ==
    [][ /\ C20_SameSeed(noise'.engines) =>
              /\ noise'.engines[1].permutation = noise'.engines[2].permutation
              /\ last'.op \in C20_Queries =>
                    noise'.value =
                        C20_Value(noise'.engines[3 - last'.arg[1]].permutation,
                                  last'.op, last'.arg)
        /\ (last'.op \in {"construct", "setSeed"} /\ last'.arg[2] # 0) =>
              noise'.engines[last'.arg[1]].permutation =
                  NewNoiseGenerator(noise'.stdlib, last'.arg[2], 0).permutation
        /\ last'.op \in C20_Queries =>
              \A e \in Engines :
                  noise'.engines[e].permutation = noise.engines[e].permutation ]_vars

\* setSeed has just given one object the non-zero seed the other one has, and
\* the two hold the same shuffled table
C20_Witness ==
    /\ last.op = "setSeed" /\ last.arg[2] # 0
    /\ C20_SameSeed(noise.engines)
    /\ noise.engines[1].permutation = noise.engines[2].permutation
    /\ \E i \in 0..255 : noise.engines[1].permutation[i] # i
    /\ {noise.engines[1].permutation[i] : i \in 0..255} = 0..255

(***************************************************************************)
(* Noise values and lookups: C21, C26                                      *)
(***************************************************************************)
\* C21: generateTerrainHeight called with scale > 0 and heightScale > 0
\* returns a value from 0 to heightScale, both included.
C21_HeightInRange ==
    (last.op = "generateTerrainHeight" /\ last.arg[4] > 0 /\ last.arg[5] > 0) =>
        /\ noise.value # NaN
        /\ 0 <= noise.value /\ noise.value <= last.arg[5] * 2048

\* C26: every index at which perlin2D and perlin3D read the 512-entry table
\* lies in 0..511, negative coordinates included, the table holding values
\* from 0 to 255.
C26_LookupsInRange ==
    LET table == noise.engines[last.arg[1]].permutation
    IN  /\ last.op = "perlin2D" =>
              lookups2D(table, last.arg[2], last.arg[3]) \subseteq 0..511
        /\ last.op = "perlin3D" =>
              lookups3D(table, last.arg[2], last.arg[3], last.arg[4]) \subseteq 0..511
        /\ last.op \in {"perlin2D", "perlin3D"} =>
              \A i \in 0..511 : table[i] \in 0..255

\* perlin3D has read the table for a point with negative coordinates, at
\* indices of the upper half too
C26_Witness ==
    /\ last.op = "perlin3D"
    /\ last.arg[2] < 0 /\ last.arg[4] < 0
    /\ \E i \in lookups3D(noise.engines[last.arg[1]].permutation,
                          last.arg[2], last.arg[3], last.arg[4]) : i > 255

(***************************************************************************)
(* The configuration file: C22                                             *)
(***************************************************************************)
\* the section a line of the file lies in
C22_Section(lines, i) ==
    LET headers == {j \in 1..(i - 1) : lines[j].kind = "section"}
    IN  IF headers = {} THEN ""
        ELSE lines[CHOOSE j \in headers : \A k \in headers : k <= j].name

\* the lines that give a key of a section
C22_Lines(lines, section, key) ==
    {i \in DOMAIN lines : /\ lines[i].kind = "pair" /\ lines[i].key = key
                          /\ C22_Section(lines, i) = section}

\* what a numeric setting must be after the load: the number on the last line
\* for it that is a number, in the setting's unit, or else what it was
C22_Number(lines, section, key, previous, unit) ==
    LET valid == {i \in C22_Lines(lines, section, key) : lines[i].value = "1"}
    IN  IF valid = {} THEN previous
        ELSE unit * 1

\* C22: after loadConfiguration has read any file, every numeric setting has
\* the value of the last line that gives it a number inside its section, or
\* its previous value when there is none; lines of unknown sections, unknown
\* keys and values that are no numbers change no setting; each value that is
\* no number is logged once; the load runs to its end and the post-processing
\* record is written back.
C22_LoadIsRobust ==
    [][ last'.op = "loadSettings" =>
          LET lines == last'.arg
              flags == C22_Lines(lines, "Post-Processing", "enable_post_processing")
          IN  /\ lighting'.directionalLight.intensity =
                    C22_Number(lines, "Lighting", "sun_intensity",
                               lighting.directionalLight.intensity, 1000)
              /\ pp'.config.bloomIntensity =
                    C22_Number(lines, "Post-Processing", "bloom_intensity",
                               pp.config.bloomIntensity, 1000)
              /\ pp'.config.bloomBlurPasses =
                    C22_Number(lines, "Post-Processing", "bloom_iterations",
                               pp.config.bloomBlurPasses, 1)
              /\ renderer'.postProcessingEnabled =
                    IF flags = {} THEN renderer.postProcessingEnabled
                    ELSE lines[CHOOSE j \in flags : \A k \in flags : k <= j].value = "1"
              /\ [lighting' EXCEPT !.directionalLight.intensity = 0]
                    = [lighting EXCEPT !.directionalLight.intensity = 0]
              /\ [pp' EXCEPT !.config.bloomIntensity = 0, !.config.bloomBlurPasses = 0]
                    = [pp EXCEPT !.config.bloomIntensity = 0, !.config.bloomBlurPasses = 0]
              /\ [renderer' EXCEPT !.postProcessingEnabled = FALSE]
                    = [renderer EXCEPT !.postProcessingEnabled = FALSE]
              /\ last'.warnings =
                    Cardinality({i \in C22_Lines(lines, "Lighting", "sun_intensity")
                                        \cup C22_Lines(lines, "Post-Processing",
                                                       "bloom_intensity")
                                        \cup C22_Lines(lines, "Post-Processing",
                                                       "bloom_iterations") :
                                    lines[i].value = "abc"})
              /\ console' = MsgConfigLoaded ]_vars

\* a file whose second line gives a key something that is no number and whose
\* third line gives bloom_iterations a number: one warning, and the third line
\* applied
C22_Witness ==
    /\ last.op = "loadSettings"
    /\ Len(last.arg) = 3
    /\ last.arg[1] = [kind |-> "section", name |-> "Post-Processing"]
    /\ last.arg[2] = [kind |-> "pair", key |-> "bloom_intensity", value |-> "abc"]
    /\ last.arg[3] = [kind |-> "pair", key |-> "bloom_iterations", value |-> "1"]
    /\ last.warnings = 1
    /\ pp.config.bloomBlurPasses = 1
    /\ pp.config.bloomIntensity = RendererConfig.bloomIntensity

(***************************************************************************)
(* Ping-pong alternation of the blur: C23                                  *)
(***************************************************************************)
\* the color texture attached to a framebuffer of the post-processor
C23_TargetOf(fbo) ==
    IF fbo = pp.mainFBO THEN pp.colorTexture
    ELSE pp.pingPongTexture[CHOOSE i \in 0..1 : pp.pingPongFBO[i] = fbo]

\* the bloom passes drawn in a frame, as positions of its log
C23_Passes == FrameIndices(frame.log, "brightPass") \cup FrameIndices(frame.log, "blur")

\* C23: in every frame each blur pass writes a color target other than the
\* one it reads, and reads the target written by the bloom pass drawn just
\* before it: the bright-pass extraction for the first blur pass, the
\* preceding blur pass for every other.  The extraction itself writes a
\* target other than the scene texture it reads.
C23_PingPongAlternates ==
    /\ \A k \in FrameIndices(frame.log, "blur") :
          /\ C23_TargetOf(frame.log[k].fbo) # frame.log[k].tex0
          /\ k - 1 \in C23_Passes
          /\ frame.log[k].tex0 = C23_TargetOf(frame.log[k - 1].fbo)
    /\ \A k \in FrameIndices(frame.log, "brightPass") :
          /\ C23_TargetOf(frame.log[k].fbo) # frame.log[k].tex0
          /\ k - 1 \notin FrameIndices(frame.log, "blur")

\* a frame with six blur passes, the last reading what the fifth wrote
C23_Witness ==
    /\ PostProcessedFrame
    /\ ~frame.bloomFailed
    /\ Cardinality(FrameIndices(frame.log, "blur")) = 6
    /\ \E k \in FrameIndices(frame.log, "blur") :
          /\ \A j \in FrameIndices(frame.log, "blur") : j <= k
          /\ frame.log[k].tex0 = pp.pingPongTexture[1]
          /\ frame.log[k].fbo = pp.pingPongFBO[0]

(***************************************************************************)
(* What a resize replaces: C24                                             *)
(***************************************************************************)
C24_Framebuffers(P) == {P.mainFBO, P.pingPongFBO[0], P.pingPongFBO[1]}
C24_Textures(P) ==
    {P.colorTexture, P.depthTexture, P.pingPongTexture[0], P.pingPongTexture[1]}

\* C24: a resize that reallocates deletes the three framebuffers and the four
\* textures the compositor held and creates three framebuffers and four
\* textures in their place, and nothing else of the context is created or
\* deleted; the three programs and the Config record are as before; the quad
\* ids are as before whenever the quad existed, and a resize changes them
\* only when the VAO id was zero.
C24_ResizeKeepsTheRest ==
    [][ (last'.op = "resize" /\ console' = MsgResized) =>
          /\ gl'.framebuffers =
                (gl.framebuffers \ C24_Framebuffers(pp)) \cup C24_Framebuffers(pp')
          /\ gl'.textures = (gl.textures \ C24_Textures(pp)) \cup C24_Textures(pp')
          /\ Cardinality(C24_Framebuffers(pp')) = 3
          /\ Cardinality(C24_Textures(pp')) = 4
          /\ 0 \notin C24_Framebuffers(pp') \cup C24_Textures(pp')
          /\ ~gl.recycle =>
                /\ C24_Framebuffers(pp') \cap C24_Framebuffers(pp) = {}
                /\ C24_Textures(pp') \cap C24_Textures(pp) = {}
          /\ pp'.config = pp.config
          /\ pp'.brightPassShader = pp.brightPassShader
          /\ pp'.blurShader = pp.blurShader
          /\ pp'.finalShader = pp.finalShader
          /\ pp.quadVAO # 0 => (pp'.quadVAO = pp.quadVAO /\ pp'.quadVBO = pp.quadVBO)
          /\ (pp'.quadVAO # pp.quadVAO \/ pp'.quadVBO # pp.quadVBO) => pp.quadVAO = 0
      ]_vars

\* after a reallocating resize on a driver that hands out new names: the
\* targets have names the first ones did not have, the quad and the
\* renderer's Config are those of the construction, a program is missing
C24_Witness ==
    /\ last.op = "resize"
    /\ console = MsgResized
    /\ ~gl.recycle
    /\ pp.mainFBO > 3
    /\ pp.quadVAO = 1
    /\ pp.config = RendererConfig
    /\ pp.brightPassShader /\ ~pp.finalShader

(***************************************************************************)
(* The index buffer of the grid: C25, C27                                  *)
(***************************************************************************)
\* the six vertex numbers of the quad of cell (x, z)
C25_Quad(widthSegments, x, z) ==
    LET topLeft == z * (widthSegments + 1) + x
        bottomLeft == (z + 1) * (widthSegments + 1) + x
    IN  <<topLeft, bottomLeft, topLeft + 1, topLeft + 1, bottomLeft, bottomLeft + 1>>

\* C25: the index buffer of a generated grid holds, for the cells in z-major
\* order, the six indices (topLeft, bottomLeft, topRight, topRight,
\* bottomLeft, bottomRight) of each cell and nothing else, and every index
\* is smaller than the number of vertices.
C25_IndexBuffer ==
    last.op = "generateGrid" =>
        LET widthSegments == last.arg[1]
            depthSegments == last.arg[2]
        IN  /\ mesh.valid
            /\ Len(mesh.indexBuffer) = 6 * widthSegments * depthSegments
            /\ \A z \in 0..(depthSegments - 1), x \in 0..(widthSegments - 1), j \in 1..6 :
                  asNumber(mesh.indexBuffer[6 * (z * widthSegments + x) + j])
                      = C25_Quad(widthSegments, x, z)[j]
            /\ \A k \in DOMAIN mesh.indexBuffer :
                  asNumber(mesh.indexBuffer[k]) < asNumber(mesh.vertices)

\* the grid of 3 by 2 segments: 12 vertices, and the last of its six quads
\* is (6, 10, 7, 7, 10, 11)
C25_Witness ==
    /\ last.op = "generateGrid"
    /\ last.arg = <<3, 2>>
    /\ asNumber(mesh.vertices) = 12
    /\ Len(mesh.indexBuffer) = 36
    /\ [j \in 1..6 |-> asNumber(mesh.indexBuffer[30 + j])] = <<6, 10, 7, 7, 10, 11>>

\* C27: in a generated grid every vertex 0 .. (widthSegments + 1) *
\* (depthSegments + 1) - 1 is an index of some triangle, and
\* calculateSmoothNormals gives no vertex the fallback normal.
C27_EveryVertexReferenced ==
    last.op = "generateGrid" =>
        /\ asNumber(mesh.vertices) = (last.arg[1] + 1) * (last.arg[2] + 1)
        /\ \A v \in 0..((last.arg[1] + 1) * (last.arg[2] + 1) - 1) :
              \E k \in DOMAIN mesh.indexBuffer : asNumber(mesh.indexBuffer[k]) = v
        /\ mesh.fallbacks = {}

\* the smallest grid, one cell: its corner vertices 0 and 3 are referenced
\* (0 by one triangle only, 3 by the other) and no vertex fell back
C27_Witness ==
    /\ last.op = "generateGrid"
    /\ last.arg = <<1, 1>>
    /\ asNumber(mesh.vertices) = 4
    /\ [k \in 1..6 |-> asNumber(mesh.indexBuffer[k])] = <<0, 2, 1, 1, 2, 3>>
    /\ mesh.fallbacks = {}

(***************************************************************************)
(* The depth test across frames: C28                                       *)
(***************************************************************************)
\* C28: whenever endFrame has returned the depth test is enabled, on every
\* return path, so that every scene pass is drawn with the depth test on.
C28_DepthTestRestored ==
    /\ PostProcessedFrame => gl.depthTest
    /\ \A k \in FrameIndices(frame.log, "scene") : frame.log[k].depthTest

(***************************************************************************)
(* Image-based lighting after start-up: C29                                *)
(***************************************************************************)
\* C29: when initialization has completed, in either front-end, ibl.enabled
\* is true exactly when the HDR environment was loaded with valid textures.
C29_IBLFollowsHDR ==
    (last.op = "initialize" /\ mesh.valid /\ renderer.initialized) =>
        lighting.ibl.enabled = last.hdr

(***************************************************************************)
(* The pressed-key array: C30                                              *)
(***************************************************************************)
\* C30: every key event that reaches processKeyboard stores only through
\* subscripts 0..1023 of the pressed-key array, and leaves the entry of its
\* key true after a press, false after a release and as it was after a
\* repeat, with every other entry as it was: an entry is true iff the last
\* press or release of its key was a press.
C30_KeyArray ==
    [][ last'.op = "processKeyboard" =>
          LET key == last'.arg[1]
              action == last'.arg[2]
          IN  /\ last'.written \subseteq 0..(KeysPressedSize - 1)
              /\ renderer'.keysPressed =
                    CASE action = GLFW_PRESS -> renderer.keysPressed \cup {key}
                      [] action = GLFW_RELEASE -> renderer.keysPressed \ {key}
                      [] OTHER -> renderer.keysPressed
      ]_vars

====
